---- MODULE Spec2Model ----
(***************************************************************************)
(* A model of lazypp: the task runtime (src/lazypp/task.py), the file      *)
(* artifacts (src/lazypp/file_objects.py) and the reusable-artifact lock   *)
(* protocol (src/lazypp/reusable_file_objects.py, src/lazypp/file_lock.py).*)
(*                                                                         *)
(* Task invocations are coroutines of one asyncio event loop: `running`    *)
(* is the coroutine that holds the loop, and it gives the loop up only at  *)
(* an await that really suspends (a held lock, the gather of the upstream  *)
(* tasks, a dispatch to the worker pool).                                  *)
(***************************************************************************)
EXTENDS Integers, Sequences, FiniteSets, TLC

\* ------------------------------------------------------------------ bounds
\* Invocations (coroutines of BaseTask.__call__) created in one run.
MaxInv == 3
\* Users of one reusable artifact.
NUsers == 3

\* The retry limit of BaseTask.__call__ (while retry_count < 3).
MaxRetries == 3

\* ------------------------------------------------------------------ values
\* The task instances of a run: an upstream task U and two downstream tasks.
Tasks == {"U", "A", "B"}
\* The tasks user code invokes; U runs as their dependency.
Roots == {"A", "B"}

\* The task classes (body + name). Those of U:
UpKinds == {"upScalar", "upFile", "upError"}
\* and those of A and B: a body that returns a scalar mapping, one that writes
\* and returns a file artifact, bodies that raise RetryTask on their first k
\* attempts, on every attempt, a body that raises another error, and bodies
\* that return a list, a mapping holding a lambda, and None.
BodyKinds ==
  {"scalar", "file", "retry1", "retry2", "retryAlways", "error", "list",
   "lambda", "none"}

KindNames ==
  <<"upScalar", "upFile", "upError", "scalar", "file", "retry1", "retry2",
    "retryAlways", "error", "list", "lambda", "none">>

KindIdx(k) == CHOOSE n \in 1..Len(KindNames) : KindNames[n] = k

\* A node of an input or output value. `oid` is the identity of the Python
\* object (0 for values without one that matters).
Node(type, v, dest, copy, src, t, key, oid) ==
  [type |-> type, v |-> v, dest |-> dest, copy |-> copy, src |-> src,
   t |-> t, key |-> key, oid |-> oid]

Scalar(v) == Node("scalar", v, "", FALSE, "", "", 0, 0)

\* File(path, dest=..., copy=...): `v` is the content, `src` where _src_path
\* points ("ext": a file of the caller, "work": the work directory, "cache").
FileNode(dest, copy, src, content, oid) ==
  Node("file", content, dest, copy, src, "", 0, oid)

\* A task embedded in an input.
TaskRef(t, oid) == Node("task", 0, "", FALSE, "", t, 0, oid)

\* task.output[key] taken before the task has run: a DummyOutput.
Handle(t, key, oid) == Node("handle", 0, "", FALSE, "", t, key, oid)

\* ReusableFile(id=..., cache_dir=...): `v` is the id. The class derives
\* from neither BaseEntry nor BaseTask.
ReusableNode(id, oid) == Node("reusable", id, "", FALSE, "", "", 0, oid)

\* A value pickle cannot serialize.
Lambda == Node("lambda", 0, "", FALSE, "", "", 0, 0)

\* An output value: None, a list (not a mapping), or a string-keyed mapping
\* (its values in key order). `oid` is the identity of the dict object.
Value(tag, nodes, oid) == [tag |-> tag, nodes |-> nodes, oid |-> oid]

NoneV == Value("None", <<>>, 0)

\* ------------------------------------------------------------------ state
VARIABLES
  kind,      \* task -> its class
  sticky,    \* task -> a work_dir was passed to the constructor
  worker,    \* the tasks were given a ProcessPoolExecutor
  input0,    \* task -> the input as constructed
  input,     \* task -> _input (rewritten in place by restore_output)
  output,    \* task -> _output
  hash,      \* task -> _hash (<<>>: None)
  upres,     \* task -> _upstream_results ([set |-> FALSE]: None)
  wd,        \* task -> _work_dir and the files in it
  outLock,   \* task -> the invocation holding _output_lock (0: free)
  glock,     \* fingerprint -> the invocation holding _global_locks[fp]
  fs,        \* fingerprint -> the cache entry cache_dir/<fp>
  inv,       \* the invocations, by id
  running,   \* the invocation that holds the event loop (0: none)
  bodyRuns,  \* task -> executions of task() so far
  nextOid,   \* the next fresh object identity
  \* the reusable artifact:
  rpc,       \* user -> where it is in the with-block
  rfd,       \* user -> the inode its FileLock.lock_file has open (0: None)
  lockPath,  \* the inode <hash>.lock names (0: no such file)
  flock,     \* inode -> the user holding LOCK_EX on it (0: none)
  nInodes,   \* inodes created so far
  cacheFile, \* cache_dir/reusable_files/<hash>: "absent", "partial", "present"
  localFile, \* user -> ./<hash> in its work directory: "none", "own" (written
             \* by its block), "link" or "copy" (of the cached artifact)
  rerr,      \* user -> the error its block ended with ("": none)
  rrole,     \* user -> "producer" (no artifact under the lock) or "reader"
  rcopy,     \* ReusableFile(copy=...)
  rmutable,  \* ReusableFile(mutable=...)
  rsaw,      \* user -> the state of the cache file when it linked or copied
             \* it ("": it did not)
  rfast,     \* user -> it entered at the first existence test, taking no lock
  rnext,     \* user: the user granted the lock first after a producer that
             \* left no file unlocked (0: none); vacant: no one since that unlock
  \* the callers of the runtime:
  peek,      \* the lookup of another process: its hit, and what its load found
  other,     \* the run of an equal task in another process: where it is, the
             \* task, and the next step of its _cache_output
  gargs,     \* the list passed to utils.gather
  gst,       \* utils.gather: "idle", "running", "done", "failed"
  gret,      \* the list utils.gather returned
  \* the functions checked on their own:
  pin,       \* the arguments drawn
  pout       \* the results computed from them

taskVars ==
  <<kind, sticky, worker, input0, input, output, hash, upres, wd, outLock,
    glock, fs, inv, running, bodyRuns, nextOid>>

reuseVars ==
  <<rpc, rfd, lockPath, flock, nInodes, cacheFile, localFile, rerr, rrole,
    rcopy, rmutable, rsaw, rfast, rnext>>

callerVars == <<peek, other, gargs, gst, gret>>

pureVars == <<pin, pout>>

vars == <<taskVars, reuseVars, callerVars, pureVars>>

\* ------------------------------------------------------ traversal, hashing
\* _call_func_on_specific_class visits every object once: a second reference
\* to an object already in `visited` is skipped, so it is neither passed to
\* func nor replaced.
FirstVisit(nodes, i) ==
  nodes[i].oid = 0 \/ \A j \in 1..(i - 1) : nodes[j].oid # nodes[i].oid

\* The positions func is applied to when the traversal looks for `type`.
Visited(nodes, type) ==
  SelectSeq([i \in 1..Len(nodes) |-> i],
            LAMBDA i : nodes[i].type = type /\ FirstVisit(nodes, i))

\* _is_valid_output: None, or a dict whose keys are strings.
_is_valid_output(val) == val.tag \in {"None", "map"}

\* The tasks _collect_upstream_results starts a coroutine for, in its order:
\* first every embedded task, then the task of every DummyOutput.
DependentTasks(nodes) ==
  [k \in 1..Len(Visited(nodes, "task")) |-> nodes[Visited(nodes, "task")[k]].t]
  \o [k \in 1..Len(Visited(nodes, "handle")) |->
        nodes[Visited(nodes, "handle")[k]].t]

\* DummyOutput.restore_output(): the key of the task's output the handle
\* stands for. <<>> when the output has no such key.
restore_output(n, out) ==
  IF out[n.t].tag = "map" /\ n.key \in 1..Len(out[n.t].nodes)
    THEN <<out[n.t].nodes[n.key]>>
    ELSE <<>>

\* Whether every DummyOutput of the input can be restored.
RestoreOk(nodes, out) ==
  \A k \in 1..Len(Visited(nodes, "handle")) :
    restore_output(nodes[Visited(nodes, "handle")[k]], out) # <<>>

\* parent[key] = func(inner_obj) or inner_obj, for func = restore_output: a
\* falsy result leaves the handle where it is.
RestoreInput(nodes, out) ==
  [i \in 1..Len(nodes) |->
     IF nodes[i].type = "handle" /\ FirstVisit(nodes, i)
       THEN LET r == restore_output(nodes[i], out)[1]
            IN  IF r.type = "scalar" /\ r.v = 0 THEN nodes[i] ELSE r
       ELSE nodes[i]]

RECURSIVE Concat(_)
Concat(ss) == IF ss = <<>> THEN <<>> ELSE Head(ss) \o Concat(Tail(ss))

\* Whether _dump_input raises: an artifact has no _xxh128_hash, task.hash
\* raises while the task's hash is None, and json.dumps cannot serialize what
\* is left unreplaced (a DummyOutput, the second reference to a task, a
\* ReusableFile, which no traversal looks for).
DumpFails(nodes, hs) ==
  \E i \in 1..Len(nodes) :
    \/ nodes[i].type \in {"file", "handle", "lambda", "reusable"}
    \/ nodes[i].type = "task" /\ ~FirstVisit(nodes, i)
    \/ nodes[i].type = "task" /\ hs[nodes[i].t] = <<>>

\* The text json.dumps gives for one replaced node.
NodeText(n, hs) ==
  IF n.type = "task" THEN <<2>> \o hs[n.t] \o <<3>> ELSE <<1, n.v>>

\* The input mapping of a task constructed with the values `nodes`: its items
\* in insertion order, the i-th under the i-th key.
Items(nodes) == [i \in 1..Len(nodes) |-> [key |-> i, node |-> nodes[i]]]

\* json.dumps of the items of a dict: key and value of every item, in the
\* dict's (insertion) order; sort_keys is not set.
json_dumps(items, hs) ==
  Concat([i \in 1..Len(items) |->
            <<6, items[i].key>> \o NodeText(items[i].node, hs)])

\* _dump_input of a task whose input mapping has the given items: the items,
\* then the entry __lazypp_task_source__ (the body's code).
DumpMapping(items, k, hs) == json_dumps(items, hs) \o <<4, KindIdx(k)>>

\* _calculate_hash of such a task: the digest of the dumped input (an
\* injective function of it), "_", and the task's name (its class name).
HashOfMapping(items, k, hs) == DumpMapping(items, k, hs) \o <<5, KindIdx(k)>>

_dump_input(nodes, k, hs) == DumpMapping(Items(nodes), k, hs)

_calculate_hash(nodes, k, hs) == HashOfMapping(Items(nodes), k, hs)

\* ------------------------------------------------------------- task bodies
\* What the n-th execution (n = 1, 2, ...) of a body of class k does:
\* "return", "retry" (raise RetryTask) or "raise" (another error).
BodyOutcome(k, n) ==
  CASE k \in {"upError", "error"} -> "raise"
    [] k = "retryAlways" -> "retry"
    [] k = "retry1" -> IF n <= 1 THEN "retry" ELSE "return"
    [] k = "retry2" -> IF n <= 2 THEN "retry" ELSE "return"
    [] OTHER -> "return"

\* The value a returning body returns; `oid` is the identity of the new dict.
BodyValue(k, oid) ==
  CASE k = "upScalar" -> Value("map", <<Scalar(2)>>, oid)
    [] k = "upFile" -> Value("map", <<FileNode("res", TRUE, "work", 7, 0)>>, oid)
    [] k = "file" -> Value("map", <<FileNode("out", TRUE, "work", 8, 0)>>, oid)
    [] k = "list" -> Value("list", <<>>, oid)
    [] k = "lambda" -> Value("map", <<Lambda>>, oid)
    [] k = "none" -> NoneV
    [] OTHER -> Value("map", <<Scalar(1)>>, oid)

\* The files a returning body leaves in its work directory.
BodyFiles(k) ==
  CASE k = "upFile" -> {"res"}
    [] k = "file" -> {"out"}
    [] OTHER -> {}

\* ---------------------------------------------------------------- staging
\* The artifacts _setup_workdir stages: those of the input, then those of
\* every upstream result (one traversal each).
FilesOf(nodes) ==
  [k \in 1..Len(Visited(nodes, "file")) |-> nodes[Visited(nodes, "file")[k]]]

StagedEntries(nodes, results) ==
  FilesOf(nodes) \o Concat([k \in 1..Len(results) |-> FilesOf(results[k].nodes)])

\* File._copy_to_dest / File.copy for each entry in turn: an entry with the
\* copy flag is copied to work_dir/dest, and FileExistsError is raised when
\* that path exists.
RECURSIVE Stage(_, _)
Stage(files, entries) ==
  IF entries = <<>> THEN [ok |-> TRUE, files |-> files]
  ELSE IF ~Head(entries).copy THEN Stage(files, Tail(entries))
  ELSE IF Head(entries).dest \in files THEN [ok |-> FALSE, files |-> files]
  ELSE Stage(files \cup {Head(entries).dest}, Tail(entries))

\* ------------------------------------------------------------ cache entry
NoPkl == [st |-> "absent", val |-> NoneV]

NoEntry == [pkl |-> NoPkl, json |-> FALSE, blobs |-> {}, logs |-> FALSE]

Entry(fp) == IF fp \in DOMAIN fs THEN fs[fp] ELSE NoEntry

\* A lookup that never finds an entry.
CacheNeverHit(fp) == FALSE

\* _check_cache: os.path.exists(cache_dir/hash/output.pkl).
_check_cache(fp) == Entry(fp).pkl.st # "absent"

\* File._cache on every artifact of the output: the artifact's _src_path now
\* points at the blob in the cache entry.
Archived(val) ==
  [val EXCEPT !.nodes =
     [i \in 1..Len(val.nodes) |->
        IF val.nodes[i].type = "file"
          THEN [val.nodes[i] EXCEPT !.src = "cache"]
          ELSE val.nodes[i]]]

\* The blobs File._cache writes for the output: one per artifact, named by
\* the digest of its content.
BlobsOf(val) == {val.nodes[i].v : i \in {j \in 1..Len(val.nodes) : val.nodes[j].type = "file"}}

\* Whether shutil.copy(work_dir/dest, ...) finds every artifact's file.
ArchiveOk(val, files) ==
  \A i \in 1..Len(val.nodes) :
    val.nodes[i].type = "file" => val.nodes[i].dest \in files

\* Whether pickle.dumps(output) succeeds.
Picklable(val) == \A i \in 1..Len(val.nodes) : val.nodes[i].type # "lambda"

\* A store that writes output.pkl before the artifacts and input.json.
PklFirstSteps == <<"remove", "makedirs", "open", "write", "archive", "json">>

\* The steps of _cache_output after its validity check, in the code's order.
CacheOutputSteps == <<"remove", "makedirs", "archive", "json", "open", "write">>

\* ------------------------------------------------------------ invocations
\* A coroutine of BaseTask.__call__. `seen`, `wrote`, `raisedAt` and `badOut`
\* record what it saw and did: the output.pkl it found at its lookup, whether
\* it removed or wrote an output.pkl, its attempt count when the body raised
\* an error other than RetryTask, whether its body returned a value that is
\* no mapping or cannot be pickled, whether it had to wait for the global
\* lock, and (busy) whether it was started while another invocation of its
\* instance was under way.
NewInv(t, parent, busy) ==
  [task |-> t, pc |-> "start", parent |-> parent, kids |-> <<>>, retry |-> 0,
   attempts |-> 0, step |-> 1, outcome |-> "", res |-> NoneV, err |-> "",
   looked |-> FALSE, seen |-> NoPkl, wrote |-> FALSE, raisedAt |-> 0,
   badOut |-> FALSE, waited |-> FALSE, busy |-> busy]

Merge(r, upd) == [f \in DOMAIN r |-> IF f \in DOMAIN upd THEN upd[f] ELSE r[f]]

InvIds == 1..Len(inv)

TaskOf(i) == inv[i].task

Fp(i) == hash[TaskOf(i)]

SetEntry(fp, e) == [f \in DOMAIN fs \cup {fp} |-> IF f = fp THEN e ELSE fs[f]]

\* `async with` blocks that do not free their locks on the way out.
KeepLocks(i) == UNCHANGED <<outLock, glock>>

\* Leaving the `async with` blocks: the locks this invocation holds are freed.
ReleaseLocks(i) ==
  /\ outLock' = [t \in Tasks |-> IF outLock[t] = i THEN 0 ELSE outLock[t]]
  /\ glock' = [f \in DOMAIN glock |-> IF glock[f] = i THEN 0 ELSE glock[f]]

\* An exception leaves __call__.
Fail(i, e) ==
  /\ inv' = [inv EXCEPT ![i] = Merge(@, [pc |-> "failed", err |-> e])]
  /\ ReleaseLocks(i)
  /\ running' = 0

\* __call__ returns val.
Return(i, val) ==
  /\ inv' = [inv EXCEPT ![i] = Merge(@, [pc |-> "done", res |-> val])]
  /\ ReleaseLocks(i)
  /\ running' = 0

cfgVars == <<kind, sticky, worker, input0>>

\* A task without its _output_lock: the lock can always be taken.
NoOutputLock(t) == TRUE

\* self._output_lock can be taken.
OutputLockFree(t) == outLock[t] = 0

\* A runtime without _global_locks: the lock can always be taken.
NoGlobalLock(fp) == TRUE

\* BaseTask._global_locks[fp] can be taken.
GlobalLockFree(fp) == fp \notin DOMAIN glock \/ glock[fp] = 0

\* A scheduler that does not await the upstream coroutines.
GatherNeverWaits(i) == TRUE

\* asyncio.gather(*dependent_tasks) is done: one of the coroutines raised, or
\* all have returned.
GatherReady(i) ==
  \/ \E k \in 1..Len(inv[i].kids) : inv[inv[i].kids[k]].pc = "failed"
  \/ \A k \in 1..Len(inv[i].kids) : inv[inv[i].kids[k]].pc = "done"

\* A retry loop that catches every exception.
EveryErrorRetried(outcome) == outcome \in {"retry", "raise"}

\* except RetryTask: the exceptions the retry loop catches.
IsRetryTask(outcome) == outcome = "retry"

\* A coroutine that is created and has not run yet, with nothing to wait for.
Pending == {j \in InvIds : inv[j].pc = "start" /\ OutputLockFree(TaskOf(j))}

\* User code starts a coroutine of task t (asyncio.create_task(t()), gather).
\* Creating a coroutine changes nothing until the loop first runs it, so a
\* batch of new coroutines is created one by one, each when the loop is about
\* to run it.
Call(t) ==
  /\ running = 0
  /\ gst # "running"
  /\ t \in Roots
  /\ Len(inv) < MaxInv
  /\ Pending = {}
  /\ inv' = Append(inv, NewInv(t, 0, ~OutputLockFree(t)))
  /\ UNCHANGED <<cfgVars, input, output, hash, upres, wd, outLock, glock, fs,
                 running, bodyRuns, nextOid, reuseVars, callerVars, pureVars>>

\* A task that never finds its output set.
NeverMemoized(t) == FALSE

\* if self._output is not None
Memoized(t) == output[t] # NoneV

\* async with self._output_lock: if self._output is not None: return it.
Enter(i) ==
  /\ inv[i].pc = "start"
  /\ running = 0
  /\ OutputLockFree(TaskOf(i))
  /\ IF Memoized(TaskOf(i))
       THEN /\ inv' = [inv EXCEPT ![i] =
                         Merge(@, [pc |-> "done", res |-> output[TaskOf(i)]])]
            /\ UNCHANGED <<outLock, running>>
       ELSE /\ inv' = [inv EXCEPT ![i].pc = "collect"]
            /\ outLock' = [outLock EXCEPT ![TaskOf(i)] = i]
            /\ running' = i
  /\ UNCHANGED <<cfgVars, input, output, hash, upres, wd, glock, fs, bodyRuns,
                 nextOid, reuseVars, callerVars, pureVars>>

\* _collect_upstream_results up to its await: a coroutine is created for
\* every upstream task (none when the results are already collected).
Collect(i) ==
  LET t == TaskOf(i)
      deps == DependentTasks(input[t])
      n == Len(inv)
  IN
  /\ inv[i].pc = "collect"
  /\ running = i
  /\ IF upres[t].set
       THEN /\ inv' = [inv EXCEPT ![i].pc = "hash"]
            /\ UNCHANGED <<upres, running>>
       ELSE IF deps = <<>>
       THEN /\ inv' = [inv EXCEPT ![i].pc = "hash"]
            /\ upres' = [upres EXCEPT ![t] = [set |-> TRUE, vals |-> <<>>]]
            /\ UNCHANGED running
       ELSE /\ n + Len(deps) <= MaxInv
            /\ inv' = [inv EXCEPT ![i] =
                         Merge(@, [pc |-> "await",
                                   kids |-> [k \in 1..Len(deps) |-> n + k]])]
                      \o [k \in 1..Len(deps) |->
                            NewInv(deps[k], i,
                                   \/ ~OutputLockFree(deps[k])
                                   \/ \E j \in 1..(k - 1) : deps[j] = deps[k])]
            /\ running' = 0
            /\ UNCHANGED upres
  /\ UNCHANGED <<cfgVars, input, output, hash, wd, outLock, glock, fs,
                 bodyRuns, nextOid, reuseVars, callerVars, pureVars>>

\* The gather returns: its results become _upstream_results and every
\* DummyOutput of the input is replaced by the output it stands for; or it
\* raises the error of a failed upstream task.
Await(i) ==
  LET t == TaskOf(i)
      kids == inv[i].kids
      failed == {k \in 1..Len(kids) : inv[kids[k]].pc = "failed"}
  IN
  /\ inv[i].pc = "await"
  /\ running = 0
  /\ GatherReady(i)
  /\ IF failed # {}
       THEN /\ Fail(i, inv[kids[CHOOSE k \in failed : \A j \in failed : k <= j]].err)
            /\ UNCHANGED <<upres, input>>
       ELSE IF ~RestoreOk(input[t], output)
       THEN /\ Fail(i, "KeyError")
            /\ upres' = [upres EXCEPT ![t] =
                 [set |-> TRUE, vals |-> [k \in 1..Len(kids) |-> inv[kids[k]].res]]]
            /\ UNCHANGED input
       ELSE /\ upres' = [upres EXCEPT ![t] =
                 [set |-> TRUE, vals |-> [k \in 1..Len(kids) |-> inv[kids[k]].res]]]
            /\ input' = [input EXCEPT ![t] = RestoreInput(input[t], output)]
            /\ inv' = [inv EXCEPT ![i].pc = "hash"]
            /\ running' = i
            /\ UNCHANGED <<outLock, glock>>
  /\ UNCHANGED <<cfgVars, output, hash, wd, fs, bodyRuns, nextOid, reuseVars, callerVars, pureVars>>

\* self._hash = self._calculate_hash(): in the calling coroutine, or on the
\* worker (HashDone) after an await.
ComputeHash(i) ==
  LET t == TaskOf(i) IN
  IF DumpFails(input[t], hash)
    THEN /\ Fail(i, "HashError")
         /\ UNCHANGED hash
    ELSE /\ hash' = [hash EXCEPT ![t] = _calculate_hash(input[t], kind[t], hash)]
         /\ inv' = [inv EXCEPT ![i].pc = "glock"]
         /\ running' = i
         /\ UNCHANGED <<outLock, glock>>

GetHash(i) ==
  /\ inv[i].pc = "hash"
  /\ running = i
  /\ IF hash[TaskOf(i)] # <<>>
       THEN /\ inv' = [inv EXCEPT ![i].pc = "glock"]
            /\ UNCHANGED <<hash, running, outLock, glock>>
       ELSE IF worker
       THEN /\ inv' = [inv EXCEPT ![i].pc = "hashw"]
            /\ running' = 0
            /\ UNCHANGED <<hash, outLock, glock>>
       ELSE ComputeHash(i)
  /\ UNCHANGED <<cfgVars, input, output, upres, wd, fs, bodyRuns, nextOid,
                 reuseVars, callerVars, pureVars>>

HashDone(i) ==
  /\ inv[i].pc = "hashw"
  /\ running = 0
  /\ ComputeHash(i)
  /\ UNCHANGED <<cfgVars, input, output, upres, wd, fs, bodyRuns, nextOid,
                 reuseVars, callerVars, pureVars>>

TakeGlobalLock(i) ==
  /\ glock' = [f \in DOMAIN glock \cup {Fp(i)} |->
                 IF f = Fp(i) THEN i ELSE glock[f]]
  /\ inv' = [inv EXCEPT ![i].pc = "check"]
  /\ running' = i

\* async with BaseTask._global_locks[fp]: taken at once when free, else the
\* coroutine waits (WakeGlobalLock).
AcquireGlobalLock(i) ==
  /\ inv[i].pc = "glock"
  /\ running = i
  /\ IF GlobalLockFree(Fp(i))
       THEN TakeGlobalLock(i)
       ELSE /\ inv' = [inv EXCEPT ![i] = Merge(@, [pc |-> "glockw", waited |-> TRUE])]
            /\ running' = 0
            /\ UNCHANGED glock
  /\ UNCHANGED <<cfgVars, input, output, hash, upres, wd, outLock, fs,
                 bodyRuns, nextOid, reuseVars, callerVars, pureVars>>

WakeGlobalLock(i) ==
  /\ inv[i].pc = "glockw"
  /\ running = 0
  /\ GlobalLockFree(Fp(i))
  /\ TakeGlobalLock(i)
  /\ UNCHANGED <<cfgVars, input, output, hash, upres, wd, outLock, fs,
                 bodyRuns, nextOid, reuseVars, callerVars, pureVars>>

\* if self._check_cache(): ... else: retry_count = 0.
CheckCache(i) ==
  /\ inv[i].pc = "check"
  /\ running = i
  /\ inv' = [inv EXCEPT ![i] =
       Merge(@, [pc |-> IF _check_cache(Fp(i)) THEN "load" ELSE "setup",
                 looked |-> TRUE, seen |-> Entry(Fp(i)).pkl, retry |-> 0])]
  /\ UNCHANGED <<cfgVars, input, output, hash, upres, wd, outLock, glock, fs,
                 running, bodyRuns, nextOid, reuseVars, callerVars, pureVars>>

\* self._output = self._load_from_cache(); return self._output. pickle.load
\* builds a new object; it raises EOFError on an empty file.
LoadFromCache(i) ==
  LET t == TaskOf(i)
      pkl == Entry(Fp(i)).pkl
      val == [pkl.val EXCEPT !.oid = IF pkl.val.tag = "None" THEN 0 ELSE nextOid]
  IN
  /\ inv[i].pc = "load"
  /\ running = i
  /\ IF pkl.st = "full"
       THEN /\ output' = [output EXCEPT ![t] = val]
            /\ nextOid' = nextOid + 1
            /\ Return(i, val)
       ELSE /\ Fail(i, "EOFError")
            /\ UNCHANGED <<output, nextOid>>
  /\ UNCHANGED <<cfgVars, input, hash, upres, wd, fs, bodyRuns, reuseVars, callerVars, pureVars>>

\* self.work_dir: a TemporaryDirectory is created when _work_dir is None.
work_dir(t) ==
  IF wd[t].dir = "None"
    THEN [dir |-> "Temp", files |-> {}, gen |-> wd[t].gen + 1]
    ELSE wd[t]

\* await self._setup_workdir(), then the body is run here or handed to the
\* worker (an await).
SetupWorkdir(i) ==
  LET t == TaskOf(i)
      st == Stage(work_dir(t).files, StagedEntries(input[t], upres[t].vals))
  IN
  /\ inv[i].pc = "setup"
  /\ running = i
  /\ wd' = [wd EXCEPT ![t] = [work_dir(t) EXCEPT !.files = st.files]]
  /\ IF st.ok
       THEN /\ inv' = [inv EXCEPT ![i].pc = "run"]
            /\ running' = IF worker THEN 0 ELSE i
            /\ UNCHANGED <<outLock, glock>>
       ELSE Fail(i, "FileExistsError")
  /\ UNCHANGED <<cfgVars, input, output, hash, upres, fs, bodyRuns, nextOid,
                 reuseVars, callerVars, pureVars>>

\* The bodies that write to the mapping they are given (input["z"] = 9)
\* before they return or raise.
MutatesArgument(k) == k \in {"scalar", "retry1"}

\* The mapping object self._input of task t.
InputObject(t) == [id |-> t, nodes |-> input[t]]

\* A body handed self._input itself.
NoCopy(obj) == obj

\* copy.deepcopy(self._input): an equal value in a new object.
deepcopy(obj) == [obj EXCEPT !.id = "copy"]

\* The mapping of task t after a body of class k has run on `arg`.
AfterBody(t, k, arg) ==
  IF MutatesArgument(k) /\ arg.id = t THEN Append(input[t], Scalar(9)) ELSE input[t]

\* _run_task_in_workdir: the entry directory and the two logs are created and
\* the body runs in the work directory (on the worker without the event loop)
\* on a deep copy of the input.
RunTask(i) ==
  LET t == TaskOf(i)
      how == BodyOutcome(kind[t], bodyRuns[t] + 1)
  IN
  /\ inv[i].pc = "run"
  /\ worker \/ running = i
  /\ fs' = SetEntry(Fp(i), [Entry(Fp(i)) EXCEPT !.logs = TRUE])
  /\ bodyRuns' = [bodyRuns EXCEPT ![t] = @ + 1]
  /\ wd' = [wd EXCEPT ![t].files =
              IF how = "return" THEN @ \cup BodyFiles(kind[t]) ELSE @]
  /\ inv' = [inv EXCEPT ![i] =
       Merge(@, [pc |-> "ran", outcome |-> how, attempts |-> inv[i].attempts + 1])]
  /\ input' = [input EXCEPT ![t] = AfterBody(t, kind[t], deepcopy(InputObject(t)))]
  /\ UNCHANGED <<cfgVars, output, hash, upres, outLock, glock, running,
                 nextOid, reuseVars, callerVars, pureVars>>

\* A retry that keeps the work directory it has.
NoCleanup(w) == w

\* if isinstance(self._work_dir, TemporaryDirectory): cleanup() and
\* self._work_dir = None; a work directory given as a path is left alone.
cleanup(w) ==
  IF w.dir = "Temp" THEN [w EXCEPT !.dir = "None", !.files = {}] ELSE w

\* The body's result reaches the retry loop: self._output is set and the
\* global lock left; RetryTask is counted, a transient work directory is
\* cleaned up and the loop goes on or gives up; another error propagates.
AfterRun(i) ==
  LET t == TaskOf(i)
      val == BodyValue(kind[t], nextOid)
  IN
  /\ inv[i].pc = "ran"
  /\ running = IF worker THEN 0 ELSE i
  /\ IF inv[i].outcome = "return"
       THEN /\ output' = [output EXCEPT ![t] = val]
            /\ nextOid' = nextOid + 1
            /\ inv' = [inv EXCEPT ![i] =
                 Merge(@, [pc |-> "store", badOut |-> ~_is_valid_output(val) \/ ~Picklable(val)])]
            /\ glock' = [f \in DOMAIN glock |-> IF glock[f] = i THEN 0 ELSE glock[f]]
            /\ running' = i
            /\ UNCHANGED <<wd, outLock>>
       ELSE IF IsRetryTask(inv[i].outcome)
       THEN /\ wd' = [wd EXCEPT ![t] = cleanup(@)]
            /\ IF inv[i].retry + 1 < MaxRetries
                 THEN /\ inv' = [inv EXCEPT ![i] =
                           Merge(@, [pc |-> "setup", retry |-> inv[i].retry + 1])]
                      /\ running' = i
                      /\ UNCHANGED <<outLock, glock>>
                 ELSE Fail(i, "RetriesExhausted")
            /\ UNCHANGED <<output, nextOid>>
       ELSE /\ inv' = [inv EXCEPT ![i] =
                 Merge(@, [pc |-> "failed", err |-> "BodyError",
                           raisedAt |-> inv[i].attempts])]
            /\ ReleaseLocks(i)
            /\ running' = 0
            /\ UNCHANGED <<output, nextOid, wd>>
  /\ UNCHANGED <<cfgVars, input, hash, upres, fs, bodyRuns, reuseVars, callerVars, pureVars>>

\* _cache_output begins: if not _is_valid_output(self._output): raise.
ValidateOutput(i) ==
  /\ inv[i].pc = "store"
  /\ running = i
  /\ IF _is_valid_output(output[TaskOf(i)])
       THEN /\ inv' = [inv EXCEPT ![i] = Merge(@, [pc |-> "cache", step |-> 1])]
            /\ UNCHANGED <<outLock, glock, running>>
       ELSE Fail(i, "InvalidOutput")
  /\ UNCHANGED <<cfgVars, input, output, hash, upres, wd, fs, bodyRuns,
                 nextOid, reuseVars, callerVars, pureVars>>

\* What one step of _cache_output does to the cache entry e.
StepEntry(s, e, val) ==
  CASE s = "remove" -> [e EXCEPT !.pkl = NoPkl]
    [] s = "archive" -> [e EXCEPT !.blobs = @ \cup BlobsOf(val)]
    [] s = "json" -> [e EXCEPT !.json = TRUE]
    [] s = "open" -> [e EXCEPT !.pkl = [st |-> "empty", val |-> NoneV]]
    [] s = "write" -> [e EXCEPT !.pkl = [st |-> "full", val |-> [val EXCEPT !.oid = 0]]]
    [] OTHER -> e

\* Whether the step raises: an artifact's file is missing from the work
\* directory, _dump_input raises, pickle.dumps raises.
StepFails(s, t) ==
  CASE s = "archive" -> ~ArchiveOk(output[t], wd[t].files)
    [] s = "json" -> DumpFails(input[t], hash)
    [] s = "write" -> ~Picklable(output[t])
    [] OTHER -> FALSE

\* The next step of _cache_output: the stale output.pkl is removed, the entry
\* directory made, the artifacts archived, input.json written, output.pkl
\* opened for writing (created empty) and the pickled output written to it.
CacheOutputStep(i) ==
  LET t == TaskOf(i)
      s == CacheOutputSteps[inv[i].step]
  IN
  /\ inv[i].pc = "cache"
  /\ running = i
  /\ IF StepFails(s, t)
       THEN /\ Fail(i, "StoreError")
            /\ UNCHANGED <<fs, output>>
       ELSE /\ fs' = SetEntry(Fp(i), StepEntry(s, Entry(Fp(i)), output[t]))
            /\ output' = [output EXCEPT ![t] = IF s = "archive" THEN Archived(@) ELSE @]
            /\ inv' = [inv EXCEPT ![i] =
                 Merge(@, [pc |-> IF inv[i].step = Len(CacheOutputSteps)
                                    THEN "finish" ELSE "cache",
                           step |-> inv[i].step + 1,
                           wrote |-> inv[i].wrote
                                     \/ s \in {"open", "write"}
                                     \/ (s = "remove" /\ _check_cache(Fp(i)))])]
            /\ UNCHANGED <<outLock, glock, running>>
  /\ UNCHANGED <<cfgVars, input, hash, upres, wd, bodyRuns, nextOid, reuseVars, callerVars, pureVars>>

\* The second validity check of __call__, and return self._output.
Finish(i) ==
  /\ inv[i].pc = "finish"
  /\ running = i
  /\ IF _is_valid_output(output[TaskOf(i)])
       THEN Return(i, output[TaskOf(i)])
       ELSE Fail(i, "InvalidOutput")
  /\ UNCHANGED <<cfgVars, input, output, hash, upres, wd, fs, bodyRuns,
                 nextOid, reuseVars, callerVars, pureVars>>

\* ------------------------------------------------- a process sharing cache_dir
\* The other process has not looked yet.
NoPeek == [hit |-> <<>>, loaded |-> ""]

\* The other process has not run its equal task yet.
NoStore == [pc |-> "idle", task |-> "", step |-> 0]

\* _check_cache of an equal task in another process sharing cache_dir: a
\* hit on the entry fp. The locks of __call__ are asyncio locks of the other
\* process and exclude nothing here.
ForeignCheck(fp) ==
  /\ peek = NoPeek
  /\ _check_cache(fp)
  /\ peek' = [peek EXCEPT !.hit = <<fp>>]
  /\ UNCHANGED <<taskVars, reuseVars, other, gargs, gst, gret, pureVars>>

\* Its _load_from_cache after the hit: pickle.load(open(output.pkl, "rb"))
\* raises FileNotFoundError when the file has been removed since, EOFError on
\* an empty file, and otherwise loads what the file holds.
ForeignLoad ==
  /\ peek.hit # <<>>
  /\ peek' = [hit |-> <<>>, loaded |-> Entry(peek.hit[1]).pkl.st]
  /\ UNCHANGED <<taskVars, reuseVars, other, gargs, gst, gret, pureVars>>

\* ----------------------------------------------------------- utils.gather
\* A gather that returns its copy of the argument as it is.
UnrestoredList(args, out) == args

\* _restore_dummy_output on the copy of a list: ret_obj[i] becomes
\* restore_output() of the i-th handle of the argument.
RestoredList(args, out) ==
  [i \in 1..Len(args) |-> restore_output(args[i], out)[1]]

\* gather(output) up to run_until_complete: _gather_task collects one
\* coroutine output.task() per handle, in the list's order, and the loop is
\* run until asyncio.gather of them is over. The caller is not in the loop,
\* so no coroutine exists yet and user code creates none meanwhile.
GatherStart ==
  /\ gst = "idle"
  /\ inv = <<>>
  /\ running = 0
  /\ Len(gargs) <= MaxInv
  /\ inv' = [i \in 1..Len(gargs) |-> NewInv(gargs[i].t, 0, FALSE)]
  /\ gst' = "running"
  /\ UNCHANGED <<cfgVars, input, output, hash, upres, wd, outLock, glock, fs,
                 running, bodyRuns, nextOid, reuseVars, peek, other, gargs,
                 gret,
                 pureVars>>

\* run_until_complete returns or raises: asyncio.gather raises the first
\* exception of a coroutine, and is over when all have returned; gather
\* then restores a deep copy of its argument and returns it.
GatherReturn ==
  /\ gst = "running"
  /\ running = 0
  /\ IF \E i \in 1..Len(gargs) : inv[i].pc = "failed"
       THEN gst' = "failed" /\ UNCHANGED gret
       ELSE /\ \A i \in 1..Len(gargs) : inv[i].pc = "done"
            /\ IF RestoreOk(gargs, output)
                 THEN gst' = "done" /\ gret' = RestoredList(gargs, output)
                 ELSE gst' = "failed" /\ UNCHANGED gret
  /\ UNCHANGED <<taskVars, reuseVars, peek, other, gargs, pureVars>>

\* ------------------------------------------------------------------- runs
\* The inputs A is constructed with: a scalar, the task U itself, two
\* handles U.output[1] (two DummyOutput objects), a file of the caller that
\* is staged by copy, and A itself (the dict A was constructed with, given
\* the entry afterwards).
InputsA ==
  { <<Scalar(0)>>,
    <<TaskRef("U", 1)>>,
    <<Handle("U", 1, 1), Handle("U", 1, 2)>>,
    <<FileNode("in", TRUE, "ext", 3, 1)>>,
    <<TaskRef("A", 1)>> }

\* The list the caller passes to utils.gather: the handles U.output[1] and
\* A.output[1] of two distinct tasks.
GatherArgs == <<Handle("U", 1, 1), Handle("A", 1, 2)>>

\* B is constructed like A (same class, equal input), or with A as its input.
InputsB(inA) == {inA, <<TaskRef("A", 1)>>}

ReuseInit ==
  /\ rpc = [u \in 1..NUsers |-> "start"]
  /\ rfd = [u \in 1..NUsers |-> 0]
  /\ lockPath = 0
  /\ flock = <<>>
  /\ nInodes = 0
  /\ cacheFile = "absent"
  /\ localFile = [u \in 1..NUsers |-> "none"]
  /\ rerr = [u \in 1..NUsers |-> ""]
  /\ rrole = [u \in 1..NUsers |-> ""]
  /\ rcopy = FALSE
  /\ rmutable = FALSE
  /\ rsaw = [u \in 1..NUsers |-> ""]
  /\ rfast = [u \in 1..NUsers |-> FALSE]
  /\ rnext = [vacant |-> FALSE, user |-> 0]

\* Nothing is drawn for the functions checked on their own.
PureIdle ==
  /\ pin = [op |-> "none", a |-> <<>>, b |-> <<>>]
  /\ pout = <<>>

Init ==
  /\ \E kU \in UpKinds, k \in BodyKinds :
       kind = [t \in Tasks |-> IF t = "U" THEN kU ELSE k]
  /\ \E s \in BOOLEAN : sticky = [t \in Tasks |-> t # "U" /\ s]
  /\ worker \in BOOLEAN
  /\ \E inA \in InputsA : \E inB \in InputsB(inA) :
       input0 = [t \in Tasks |->
                   IF t = "U" THEN <<Scalar(0)>> ELSE IF t = "A" THEN inA ELSE inB]
  /\ input = input0
  /\ output = [t \in Tasks |-> NoneV]
  /\ hash = [t \in Tasks |-> <<>>]
  /\ upres = [t \in Tasks |-> [set |-> FALSE, vals |-> <<>>]]
  /\ wd = [t \in Tasks |->
             [dir |-> IF sticky[t] THEN "Path" ELSE "None", files |-> {}, gen |-> 0]]
  /\ outLock = [t \in Tasks |-> 0]
  /\ glock = <<>>
  /\ fs = <<>>
  /\ inv = <<>>
  /\ running = 0
  /\ bodyRuns = [t \in Tasks |-> 0]
  /\ nextOid = 1
  /\ peek = NoPeek
  /\ other = NoStore
  /\ gargs = GatherArgs
  /\ gst = "idle"
  /\ gret = <<>>
  /\ ReuseInit
  /\ PureIdle

Next ==
  \/ \E t \in Tasks : Call(t)
  \/ \E i \in InvIds : Enter(i)
  \/ \E i \in InvIds : Collect(i)
  \/ \E i \in InvIds : Await(i)
  \/ \E i \in InvIds : GetHash(i)
  \/ \E i \in InvIds : HashDone(i)
  \/ \E i \in InvIds : AcquireGlobalLock(i)
  \/ \E i \in InvIds : WakeGlobalLock(i)
  \/ \E i \in InvIds : CheckCache(i)
  \/ \E i \in InvIds : LoadFromCache(i)
  \/ \E i \in InvIds : SetupWorkdir(i)
  \/ \E i \in InvIds : RunTask(i)
  \/ \E i \in InvIds : AfterRun(i)
  \/ \E i \in InvIds : ValidateOutput(i)
  \/ \E i \in InvIds : CacheOutputStep(i)
  \/ \E i \in InvIds : Finish(i)
  \/ GatherStart
  \/ GatherReturn

Spec == Init /\ [][Next]_vars

\* One process running the tasks A and B, constructed with equal scalar
\* inputs and without a worker, while another process looks the entry up.
\* No coroutine awaits an upstream task or a worker in these runs.
InitShared ==
  /\ Init
  /\ ~worker
  /\ kind["U"] = "upScalar"
  /\ input0["A"] = <<Scalar(0)>>
  /\ input0["B"] = <<Scalar(0)>>

NextShared ==
  \/ \E t \in Tasks : Call(t)
  \/ \E i \in InvIds : Enter(i)
  \/ \E i \in InvIds : Collect(i)
  \/ \E i \in InvIds : GetHash(i)
  \/ \E i \in InvIds : AcquireGlobalLock(i)
  \/ \E i \in InvIds : CheckCache(i)
  \/ \E i \in InvIds : LoadFromCache(i)
  \/ \E i \in InvIds : SetupWorkdir(i)
  \/ \E i \in InvIds : RunTask(i)
  \/ \E i \in InvIds : AfterRun(i)
  \/ \E i \in InvIds : ValidateOutput(i)
  \/ \E i \in InvIds : CacheOutputStep(i)
  \/ \E i \in InvIds : Finish(i)
  \/ \E fp \in DOMAIN fs : ForeignCheck(fp)
  \/ ForeignLoad

SpecShared == InitShared /\ [][NextShared]_vars

\* ------------------------------------------------------ reusable artifact
Users == 1..NUsers

\* os.path.exists(self._cache_dir / self.hash).
ArtifactExists == cacheFile # "absent"

\* The local file after shutil.copy or os.link of the cached artifact.
Linked == IF rcopy THEN "copy" ELSE "link"

\* ReusableFile.__enter__, first lines: the artifact exists, so it is linked
\* or copied and no lock is taken; else a FileLock is made.
EnterFast(u) ==
  /\ rpc[u] = "start"
  /\ UNCHANGED <<taskVars, callerVars, pureVars>>
  /\ IF ArtifactExists
       THEN /\ localFile' = [localFile EXCEPT ![u] = Linked]
            /\ rsaw' = [rsaw EXCEPT ![u] = cacheFile]
            /\ rfast' = [rfast EXCEPT ![u] = TRUE]
            /\ UNCHANGED rnext
            /\ rpc' = [rpc EXCEPT ![u] = "block"]
            /\ rrole' = [rrole EXCEPT ![u] = "reader"]
       ELSE /\ rpc' = [rpc EXCEPT ![u] = "open"]
            /\ UNCHANGED <<localFile, rrole, rsaw, rfast, rnext>>
  /\ UNCHANGED <<rfd, lockPath, flock, nInodes, cacheFile, rerr, rcopy, rmutable>>

\* FileLock.acquire: self.lock_file = open(self.lock_file_path, "w") opens
\* the file the path names, creating one when there is none.
OpenLockFile(u) ==
  /\ rpc[u] = "open"
  /\ UNCHANGED <<taskVars, callerVars, pureVars>>
  /\ IF lockPath = 0
       THEN /\ nInodes' = nInodes + 1
            /\ lockPath' = nInodes + 1
            /\ flock' = Append(flock, 0)
            /\ rfd' = [rfd EXCEPT ![u] = nInodes + 1]
       ELSE /\ rfd' = [rfd EXCEPT ![u] = lockPath]
            /\ UNCHANGED <<nInodes, lockPath, flock>>
  /\ rpc' = [rpc EXCEPT ![u] = "flock"]
  /\ UNCHANGED <<cacheFile, localFile, rerr, rrole, rcopy, rmutable, rsaw, rfast, rnext>>

\* fcntl.flock(self.lock_file, LOCK_EX) returns: no one holds the lock of the
\* open file.
FlockFree(u) == flock[rfd[u]] = 0

Flock(u) ==
  /\ rpc[u] = "flock"
  /\ UNCHANGED <<taskVars, callerVars, pureVars>>
  /\ FlockFree(u)
  /\ flock' = [flock EXCEPT ![rfd[u]] = u]
  /\ rpc' = [rpc EXCEPT ![u] = "recheck"]
  /\ rnext' = IF rnext.vacant THEN [vacant |-> FALSE, user |-> u] ELSE rnext
  /\ UNCHANGED <<rfd, lockPath, nInodes, cacheFile, localFile, rerr, rrole,
                 rcopy, rmutable, rsaw, rfast>>

\* __enter__ under the lock: the artifact exists now, so it is linked or
\* copied and the lock released; or it does not, and the caller produces it.
Recheck(u) ==
  /\ rpc[u] = "recheck"
  /\ UNCHANGED <<taskVars, callerVars, pureVars>>
  /\ IF ArtifactExists
       THEN /\ localFile' = [localFile EXCEPT ![u] = Linked]
            /\ rsaw' = [rsaw EXCEPT ![u] = cacheFile]
            /\ UNCHANGED <<rfast, rnext>>
            /\ rpc' = [rpc EXCEPT ![u] = "unlock"]
            /\ rrole' = [rrole EXCEPT ![u] = "reader"]
       ELSE /\ rpc' = [rpc EXCEPT ![u] = "producing"]
            /\ rrole' = [rrole EXCEPT ![u] = "producer"]
            /\ UNCHANGED <<localFile, rsaw, rfast, rnext>>
  /\ UNCHANGED <<rfd, lockPath, flock, nInodes, cacheFile, rerr, rcopy, rmutable>>

\* The producer's block writes the file.
Produce(u) ==
  /\ rpc[u] = "producing"
  /\ UNCHANGED <<taskVars, callerVars, pureVars>>
  /\ rerr[u] = ""
  /\ localFile[u] = "none"
  /\ localFile' = [localFile EXCEPT ![u] = "own"]
  /\ UNCHANGED <<rpc, rfd, lockPath, flock, nInodes, cacheFile, rerr, rrole,
                 rcopy, rmutable, rsaw, rfast, rnext>>

\* The caller's code in the producer's block raises, before or after it
\* wrote the file: the with statement calls __exit__ with the exception.
BlockRaises(u) ==
  /\ rpc[u] = "producing"
  /\ UNCHANGED <<taskVars, callerVars, pureVars>>
  /\ rerr[u] = ""
  /\ rerr' = [rerr EXCEPT ![u] = "BlockError"]
  /\ UNCHANGED <<rpc, rfd, lockPath, flock, nInodes, cacheFile, localFile,
                 rrole, rcopy, rmutable, rsaw, rfast, rnext>>

\* ReusableFile.__exit__ with the lock held: FileNotFoundError when the block
\* left no file, else shutil.copy starts writing the file in the cache.
ExitProducer(u) ==
  /\ rpc[u] = "producing"
  /\ UNCHANGED <<taskVars, callerVars, pureVars>>
  /\ IF localFile[u] = "none"
       THEN /\ rerr' = [rerr EXCEPT ![u] = "FileNotFoundError"]
            /\ rpc' = [rpc EXCEPT ![u] = "unlock"]
            /\ UNCHANGED cacheFile
       ELSE /\ cacheFile' = "partial"
            /\ rpc' = [rpc EXCEPT ![u] = "publishing"]
            /\ UNCHANGED rerr
  /\ UNCHANGED <<rfd, lockPath, flock, nInodes, localFile, rrole, rcopy, rmutable, rsaw, rfast, rnext>>

\* shutil.copy has written the whole file.
Published(u) ==
  /\ rpc[u] = "publishing"
  /\ UNCHANGED <<taskVars, callerVars, pureVars>>
  /\ cacheFile' = "present"
  /\ rpc' = [rpc EXCEPT ![u] = "unlock"]
  /\ UNCHANGED <<rfd, lockPath, flock, nInodes, localFile, rerr, rrole, rcopy,
                 rmutable, rsaw, rfast, rnext>>

\* FileLock.release: fcntl.flock(self.lock_file, LOCK_UN).
Unlock(u) ==
  /\ rpc[u] = "unlock"
  /\ UNCHANGED <<taskVars, callerVars, pureVars>>
  /\ flock' = [flock EXCEPT ![rfd[u]] = 0]
  /\ rpc' = [rpc EXCEPT ![u] = "close"]
  /\ rnext' = IF rrole[u] = "producer" /\ localFile[u] = "none"
                THEN [vacant |-> TRUE, user |-> 0] ELSE rnext
  /\ UNCHANGED <<rfd, lockPath, nInodes, cacheFile, localFile, rerr, rrole,
                 rcopy, rmutable, rsaw, rfast>>

\* self.lock_file.close(); self.lock_file = None.
CloseLockFile(u) ==
  /\ rpc[u] = "close"
  /\ UNCHANGED <<taskVars, callerVars, pureVars>>
  /\ rfd' = [rfd EXCEPT ![u] = 0]
  /\ rpc' = [rpc EXCEPT ![u] = "remove"]
  /\ UNCHANGED <<lockPath, flock, nInodes, cacheFile, localFile, rerr, rrole,
                 rcopy, rmutable, rsaw, rfast, rnext>>

\* os.remove(self.lock_file_path): the path is unlinked whichever file it
\* names; FileNotFoundError when it names none. After it a reader that took
\* the lock enters its block, and a producer's __exit__ is over.
RemoveLockFile(u) ==
  /\ rpc[u] = "remove"
  /\ UNCHANGED <<taskVars, callerVars, pureVars>>
  /\ lockPath' = 0
  /\ rerr' = [rerr EXCEPT ![u] =
                IF lockPath = 0 /\ @ = "" THEN "RemoveFileNotFoundError" ELSE @]
  /\ rpc' = [rpc EXCEPT ![u] =
               IF rrole[u] = "reader" /\ lockPath # 0 THEN "block" ELSE "done"]
  /\ UNCHANGED <<rfd, flock, nInodes, cacheFile, localFile, rrole, rcopy, rmutable, rsaw, rfast, rnext>>

\* __exit__ without a lock: a mutable artifact is copied back to the cache.
ExitReader(u) ==
  /\ rpc[u] = "block"
  /\ UNCHANGED <<taskVars, callerVars, pureVars>>
  /\ rpc' = [rpc EXCEPT ![u] = "done"]
  /\ IF rmutable
       THEN IF localFile[u] = "link"
              THEN /\ rerr' = [rerr EXCEPT ![u] = "SameFileError"]
                   /\ UNCHANGED cacheFile
              ELSE /\ cacheFile' = "present"
                   /\ UNCHANGED rerr
       ELSE UNCHANGED <<cacheFile, rerr>>
  /\ UNCHANGED <<rfd, lockPath, flock, nInodes, localFile, rrole, rcopy, rmutable, rsaw, rfast, rnext>>

NextReusable ==
  \/ \E u \in Users : EnterFast(u)
  \/ \E u \in Users : OpenLockFile(u)
  \/ \E u \in Users : Flock(u)
  \/ \E u \in Users : Recheck(u)
  \/ \E u \in Users : Produce(u)
  \/ \E u \in Users : BlockRaises(u)
  \/ \E u \in Users : ExitProducer(u)
  \/ \E u \in Users : Published(u)
  \/ \E u \in Users : Unlock(u)
  \/ \E u \in Users : CloseLockFile(u)
  \/ \E u \in Users : RemoveLockFile(u)
  \/ \E u \in Users : ExitReader(u)

\* The runs of the users of one reusable artifact, in any number of
\* processes: every step of a user is a system call of its own.
InitReusable ==
  /\ kind = [t \in Tasks |-> IF t = "U" THEN "upScalar" ELSE "scalar"]
  /\ sticky = [t \in Tasks |-> FALSE]
  /\ worker = FALSE
  /\ input0 = [t \in Tasks |-> <<Scalar(0)>>]
  /\ input = input0
  /\ output = [t \in Tasks |-> NoneV]
  /\ hash = [t \in Tasks |-> <<>>]
  /\ upres = [t \in Tasks |-> [set |-> FALSE, vals |-> <<>>]]
  /\ wd = [t \in Tasks |-> [dir |-> "None", files |-> {}, gen |-> 0]]
  /\ outLock = [t \in Tasks |-> 0]
  /\ glock = <<>>
  /\ fs = <<>>
  /\ inv = <<>>
  /\ running = 0
  /\ bodyRuns = [t \in Tasks |-> 0]
  /\ nextOid = 1
  /\ rpc = [u \in Users |-> "start"]
  /\ rfd = [u \in Users |-> 0]
  /\ lockPath = 0
  /\ flock = <<>>
  /\ nInodes = 0
  /\ cacheFile = "absent"
  /\ localFile = [u \in Users |-> "none"]
  /\ rerr = [u \in Users |-> ""]
  /\ rrole = [u \in Users |-> ""]
  /\ rcopy \in BOOLEAN
  /\ rmutable \in BOOLEAN
  /\ rsaw = [u \in Users |-> ""]
  /\ rfast = [u \in Users |-> FALSE]
  /\ rnext = [vacant |-> FALSE, user |-> 0]
  /\ peek = NoPeek
  /\ other = NoStore
  /\ gargs = GatherArgs
  /\ gst = "idle"
  /\ gret = <<>>
  /\ PureIdle

SpecReusable == InitReusable /\ [][NextReusable]_vars

\* ------------------------------------------------- functions on their own
\* The most items of an input mapping.
MaxKeys == 2

\* Input mappings of scalars: items with distinct keys, in insertion order.
Mappings ==
  {m \in UNION {[1..n -> [key : 1..MaxKeys, node : {Scalar(1), Scalar(2)}]] :
                  n \in 0..MaxKeys} :
     \A i, j \in DOMAIN m : i # j => m[i].key # m[j].key}

\* Two instances of one class (same body, same name) and their inputs.
HashInputs == [op : {"hash"}, a : Mappings, b : Mappings]

\* Both instances compute their fingerprint.
HashBoth ==
  /\ pin.op = "hash"
  /\ pout = <<>>
  /\ pout' = <<HashOfMapping(pin.a, "scalar", hash),
               HashOfMapping(pin.b, "scalar", hash)>>
  /\ UNCHANGED <<taskVars, reuseVars, callerVars, pin>>

\* The most components of a path argument.
MaxParts == 3

\* A path argument as written: absolute or not, and its components.
PathArgs ==
  [abs : BOOLEAN,
   comps : UNION {[1..n -> {".", "..", "a", "w"}] : n \in 0..MaxParts}]

\* Path(arg).parts: the root if the path is absolute, then the components;
\* pathlib drops the "." components and keeps "..".
PathParts(p) ==
  (IF p.abs THEN <<"/">> ELSE <<>>) \o SelectSeq(p.comps, LAMBDA c : c # ".")

\* The work directory of the task, and the process's current directory
\* while a body runs (contextlib.chdir(work_dir)).
WorkDir == <<"/", "w">>

\* base / parts: an absolute right operand replaces the base.
Join(base, parts) ==
  IF parts # <<>> /\ parts[1] = "/" THEN parts ELSE base \o parts

\* The location an absolute path names: ".." steps up (not above the root).
RECURSIVE NormFrom(_, _)
NormFrom(parts, acc) ==
  IF parts = <<>> THEN acc
  ELSE NormFrom(Tail(parts),
                CASE Head(parts) = ".." ->
                       IF Len(acc) > 1 THEN SubSeq(acc, 1, Len(acc) - 1) ELSE acc
                  [] Head(parts) = "." -> acc
                  [] OTHER -> Append(acc, Head(parts)))

Normalize(parts) == NormFrom(Tail(parts), <<"/">>)

\* Path(arg).resolve()
Resolve(parts) == Normalize(Join(WorkDir, parts))

\* A check that looks at the depth after the last part only.
FinalDepthOnly(parts) ==
  Cardinality({i \in DOMAIN parts : parts[i] = ".."}) >
  Cardinality({i \in DOMAIN parts : parts[i] \notin {".", ".."}})

\* The loop of _is_outside_base from depth `depth` on.
RECURSIVE OutsideFrom(_, _)
OutsideFrom(parts, depth) ==
  IF parts = <<>> THEN FALSE
  ELSE LET d == CASE Head(parts) = ".." -> depth - 1
                  [] Head(parts) # "." -> depth + 1
                  [] OTHER -> depth
       IN  IF d < 0 THEN TRUE ELSE OutsideFrom(Tail(parts), d)

_is_outside_base(parts) == OutsideFrom(parts, 0)

\* File(path, copy=..., dest=...): a is the path with the copy flag, b is
\* <<>> for dest=None and <<dest>> otherwise.
EntryInputs ==
  [op : {"entry"}, a : [path : PathArgs, copy : BOOLEAN], b : {<<>>}]
  \cup [op : {"entry"},
        a : [path : {[abs |-> FALSE, comps |-> <<"a">>],
                     [abs |-> TRUE, comps |-> <<"a">>]},
             copy : BOOLEAN],
        b : {<<d>> : d \in PathArgs}]

\* BaseEntry.__init__
Construct ==
  LET dest_path == PathParts(IF pin.b # <<>> THEN pin.b[1] ELSE pin.a.path)
  IN
  /\ pin.op = "entry"
  /\ pout = <<>>
  /\ pout' = <<[err |-> IF _is_outside_base(dest_path) THEN "ValueError" ELSE "",
                copy |-> IF pin.b # <<>> THEN TRUE ELSE pin.a.copy,
                dest_path |-> dest_path,
                src_path |-> Resolve(PathParts(pin.a.path))]>>
  /\ UNCHANGED <<taskVars, reuseVars, callerVars, pin>>

\* The most artifacts of an output.
MaxArtifacts == 2

\* What the body leaves in its work directory: files x and y and
\* directories d and e, each absent (0) or with one of two contents (for a
\* directory, the bytes of its files, which is all that Directory._md5_hash
\* reads).
WorkContents == [{"x", "y", "d", "e"} -> 0..2]

\* The artifacts the body constructs in its work directory and returns:
\* File(path, dest=dest) and Directory(path, dest=dest), dest = path when
\* no dest is given.
Artifacts ==
  [type : {"file"}, path : {"x", "y"}, dest : {"x", "y"}]
  \cup [type : {"dir"}, path : {"d", "e"}, dest : {"d", "e"}]

StoreInputs ==
  [op : {"store"}, a : WorkContents,
   b : UNION {[1..n -> Artifacts] : n \in 1..MaxArtifacts}]

\* No blob: the cache entry before the artifacts are archived.
NoBlobs == [h \in 0..2 |-> [type |-> "none", c |-> 0]]

\* File._cache / Directory._cache of one artifact, after those before it
\* (st): the blob is named by the digest of what _src_path holds (the digest
\* of no bytes, 0, for a directory that does not exist) and filled from
\* work_dir/dest. shutil.copy replaces a file blob of that name and copies
\* into a directory blob of that name; shutil.copytree raises when the name
\* exists. _src_path then names the blob.
CacheArtifact(st, art, work) ==
  LET h == work[art.path] IN
  IF st.err # "" THEN st
  ELSE IF art.type = "file" /\ h = 0 THEN [st EXCEPT !.err = "FileNotFoundError"]
  ELSE IF work[art.dest] = 0 THEN [st EXCEPT !.err = "FileNotFoundError"]
  ELSE IF art.type = "dir" /\ st.blobs[h].type # "none"
    THEN [st EXCEPT !.err = "FileExistsError"]
  ELSE [err |-> "",
        blobs |-> IF st.blobs[h].type = "dir" THEN st.blobs
                  ELSE [st.blobs EXCEPT ![h] = [type |-> art.type, c |-> work[art.dest]]],
        src |-> Append(st.src, h)]

\* _call_func_on_specific_class(output, entry._cache, BaseEntry): the
\* artifacts in the output's order.
RECURSIVE CacheAll(_, _, _)
CacheAll(st, arts, work) ==
  IF arts = <<>> THEN st
  ELSE CacheAll(CacheArtifact(st, Head(arts), work), Tail(arts), work)

\* The archive step of _cache_output on a new cache entry; the output
\* pickled afterwards holds the artifacts with the _src_path they have then.
StoreArtifacts ==
  /\ pin.op = "store"
  /\ pout = <<>>
  /\ pout' = <<CacheAll([err |-> "", blobs |-> NoBlobs, src |-> <<>>], pin.b, pin.a)>>
  /\ UNCHANGED <<taskVars, reuseVars, callerVars, pin>>

\* An input of up to MaxKeys values, each a scalar or a handle of U's
\* output: three DummyOutput objects, two of them for one key; an object may
\* stand at several positions. With it, the output U has returned.
RestoreInputs ==
  [op : {"restore"},
   a : UNION {[1..n -> {Scalar(1), Handle("U", 1, 1), Handle("U", 1, 2),
                         Handle("U", 2, 3)}] : n \in 1..MaxKeys},
   b : {<<Value("map", <<Scalar(v), Scalar(2)>>, 1)>> : v \in {0, 1}}]

\* The end of _collect_upstream_results: restore_output() applied to every
\* DummyOutput of the input by _call_func_on_specific_class.
RestoreHandles ==
  /\ pin.op = "restore"
  /\ pout = <<>>
  /\ pout' = <<RestoreInput(pin.a, [t \in Tasks |-> pin.b[1]])>>
  /\ UNCHANGED <<taskVars, reuseVars, callerVars, pin>>

\* An input of up to MaxKeys values, each a scalar, a file artifact of the
\* caller or the task U (one task object, which may stand at several
\* positions). U has been evaluated: its fingerprint is set.
DumpInputs ==
  [op : {"dump"},
   a : UNION {[1..n -> {Scalar(1), FileNode("in", FALSE, "ext", 3, 1),
                         TaskRef("U", 2)}] : n \in 1..MaxKeys},
   b : {<<7>>}]

\* The input of SomeBusyTask: a reusable artifact and a scalar, in either
\* order, or the reusable artifact alone.
ReusableDumpInputs ==
  [op : {"dump"},
   a : UNION {[1..n -> {Scalar(1)} \cup {ReusableNode(v, 1) : v \in 1..2}] :
                n \in 1..MaxKeys},
   b : {<<7>>}]

\* _dump_input of a task of class "scalar" with that input.
DumpInput ==
  LET hs == [t \in Tasks |-> IF t = "U" THEN pin.b ELSE <<>>] IN
  /\ pin.op = "dump"
  /\ pout = <<>>
  /\ pout' = IF DumpFails(pin.a, hs)
               THEN <<[err |-> "Error", text |-> <<>>]>>
               ELSE <<[err |-> "", text |-> _dump_input(pin.a, "scalar", hs)]>>
  /\ UNCHANGED <<taskVars, reuseVars, callerVars, pin>>

NextPure ==
  \/ HashBoth
  \/ Construct
  \/ StoreArtifacts
  \/ RestoreHandles
  \/ DumpInput

InitPure ==
  /\ kind = [t \in Tasks |-> IF t = "U" THEN "upScalar" ELSE "scalar"]
  /\ sticky = [t \in Tasks |-> FALSE]
  /\ worker = FALSE
  /\ input0 = [t \in Tasks |-> <<Scalar(0)>>]
  /\ input = input0
  /\ output = [t \in Tasks |-> NoneV]
  /\ hash = [t \in Tasks |-> <<>>]
  /\ upres = [t \in Tasks |-> [set |-> FALSE, vals |-> <<>>]]
  /\ wd = [t \in Tasks |-> [dir |-> "None", files |-> {}, gen |-> 0]]
  /\ outLock = [t \in Tasks |-> 0]
  /\ glock = <<>>
  /\ fs = <<>>
  /\ inv = <<>>
  /\ running = 0
  /\ bodyRuns = [t \in Tasks |-> 0]
  /\ nextOid = 1
  /\ peek = NoPeek
  /\ other = NoStore
  /\ gargs = GatherArgs
  /\ gst = "idle"
  /\ gret = <<>>
  /\ ReuseInit
  /\ pout = <<>>
  /\ \/ pin \in HashInputs
     \/ pin \in EntryInputs
     \/ pin \in StoreInputs
     \/ pin \in RestoreInputs
     \/ pin \in DumpInputs
     \/ pin \in ReusableDumpInputs

\* One application of one function to arguments drawn from the bounded sets.
SpecPure == InitPure /\ [][NextPure]_vars

\* ================================================================== claims
\* An invocation is over: __call__ returned or raised.
Ended(i) == inv[i].pc \in {"done", "failed"}

\* The invocations of task t that returned.
DoneOf(t) == {i \in InvIds : TaskOf(i) = t /\ inv[i].pc = "done"}

\* The tasks the input t was constructed with names: embedded tasks and the
\* tasks of deferred-output handles.
Up1(t) ==
  {input0[t][k].t :
     k \in {j \in 1..Len(input0[t]) : input0[t][j].type \in {"task", "handle"}}}

\* The upstream tasks transitively reachable from t's input (chains are at
\* most three tasks long).
Upstream(t) ==
  LET d1 == Up1(t)
      d2 == UNION {Up1(u) : u \in d1}
  IN  d1 \cup d2 \cup UNION {Up1(u) : u \in d2}

\* A body that returns, when it is first run, an output the store accepts.
Storable(k) ==
  /\ BodyOutcome(k, 1) = "return"
  /\ _is_valid_output(BodyValue(k, 0))
  /\ Picklable(BodyValue(k, 0))

\* C1: when several invocations of one task instance are started concurrently
\* in one event loop, the body (one that returns when it is run) is executed
\* once at most, exactly once unless the output came from the cache, and
\* every invocation that returns returns the same output object.
C1_SameInstanceOnce ==
  \A t \in Tasks :
    /\ BodyOutcome(kind[t], 1) = "return" => bodyRuns[t] <= 1
    /\ \A i \in DoneOf(t) :
         /\ BodyOutcome(kind[t], 1) = "return" =>
              \/ bodyRuns[t] = 1
              \/ \E j \in InvIds : TaskOf(j) = t /\ inv[j].seen.st = "full"
         /\ \A j \in DoneOf(t) : inv[i].res = inv[j].res

\* C1's case: user code started a second invocation of an instance while
\* the first was under way; both returned and the body ran once.
C1_Witness ==
  \E i, j \in InvIds :
    /\ i # j /\ TaskOf(i) = TaskOf(j)
    /\ inv[i].parent = 0 /\ inv[j].parent = 0
    /\ inv[j].busy
    /\ inv[i].pc = "done" /\ inv[i].attempts = 1
    /\ inv[j].pc = "done" /\ inv[j].attempts = 0
    /\ inv[i].res = inv[j].res
    /\ bodyRuns[TaskOf(i)] = 1

\* C2: two distinct instances with equal fingerprints invoked in one process
\* serialize on the fingerprint's lock: at most one of them is between its
\* lookup and its body's return, a body whose first run returns an output
\* the store accepts is executed once in total, and when one instance has run
\* the body and returned, the other's invocations have run nothing and return
\* what output.pkl holds.
C2_EqualFingerprintsOnce ==
  \A t1, t2 \in Tasks :
    (t1 # t2 /\ hash[t1] # <<>> /\ hash[t1] = hash[t2]) =>
      /\ Storable(kind[t1]) => bodyRuns[t1] + bodyRuns[t2] <= 1
      /\ \A i, j \in InvIds :
           (TaskOf(i) = t1 /\ TaskOf(j) = t2) =>
             ~(inv[i].pc \in {"check", "load", "setup", "run", "ran"} /\
               inv[j].pc \in {"check", "load", "setup", "run", "ran"})
      /\ (\E i \in DoneOf(t1) : inv[i].attempts > 0) =>
           /\ bodyRuns[t2] = 0
           /\ \A j \in DoneOf(t2) :
                /\ Entry(hash[t2]).pkl.st = "full"
                /\ [inv[j].res EXCEPT !.oid = 0] = Entry(hash[t2]).pkl.val

\* C2's case: the second instance waited for the fingerprint's lock while the
\* first ran the body, then returned the entry the first committed.
C2_Witness ==
  \E i, j \in InvIds :
    /\ TaskOf(i) # TaskOf(j)
    /\ Fp(i) = Fp(j)
    /\ inv[i].pc = "done" /\ inv[i].attempts = 1
    /\ inv[j].pc = "done" /\ inv[j].waited /\ inv[j].seen.st = "full"
    /\ bodyRuns[TaskOf(i)] + bodyRuns[TaskOf(j)] = 1

\* C3: a task's body is entered only when every upstream task transitively
\* reachable from its input, embedded or behind a deferred-output handle,
\* has returned (is Done).
C3_UpstreamDoneFirst ==
  \A i \in InvIds :
    (inv[i].pc = "ran" \/ inv[i].attempts > 0) =>
      \A u \in Upstream(TaskOf(i)) : DoneOf(u) # {}

\* C3's case: B, whose input embeds A, whose input embeds U, has run its body;
\* and a task with handles of U's output has run its body.
C3_Witness ==
  /\ input0["B"] = <<TaskRef("A", 1)>>
  /\ input0["A"] = <<TaskRef("U", 1)>>
  /\ Upstream("B") = {"A", "U"}
  /\ bodyRuns["B"] > 0

\* C4: output.pkl is written last: in every state, an entry that holds an
\* output.pkl holds input.json, and holds the blob of every artifact of the
\* output stored in it.
C4_CommitMarkerLast ==
  \A fp \in DOMAIN fs :
    fs[fp].pkl.st # "absent" =>
      /\ fs[fp].json
      /\ BlobsOf(fs[fp].pkl.val) \subseteq fs[fp].blobs

\* C4's case: a committed entry whose output holds an artifact.
C4_Witness ==
  \E fp \in DOMAIN fs :
    fs[fp].pkl.st = "full" /\ BlobsOf(fs[fp].pkl.val) # {} /\ fs[fp].json

\* C5: an invocation whose lookup finds a committed entry (a task of the same
\* body, name and input has run to completion) executes the body zero times,
\* writes or removes no output.pkl, so that the file stays as found, and
\* returns the output loaded from it.
C5_CacheIdempotence ==
  \A i \in InvIds :
    inv[i].seen.st = "full" =>
      /\ inv[i].attempts = 0
      /\ ~inv[i].wrote
      /\ Entry(Fp(i)).pkl = inv[i].seen
      /\ inv[i].pc \in {"load", "done"}
      /\ inv[i].pc = "done" => [inv[i].res EXCEPT !.oid = 0] = inv[i].seen.val

\* C5's case: an instance that never ran its body returned the output of the
\* entry an equal task committed before.
C5_Witness ==
  \E i \in InvIds :
    /\ inv[i].pc = "done"
    /\ inv[i].seen.st = "full"
    /\ bodyRuns[TaskOf(i)] = 0
    /\ \E j \in InvIds : TaskOf(j) # TaskOf(i) /\ Fp(j) = Fp(i) /\ inv[j].wrote

\* The invocation is the first of its instance to run the body, and is over.
FirstRunOver(i) ==
  Ended(i) /\ inv[i].attempts >= 1 /\ inv[i].attempts = bodyRuns[TaskOf(i)]

\* C6: an invocation whose body raises RetryTask on its first k attempts
\* (k = 1, 2) and then returns succeeds with k + 1 body executions and a
\* committed entry, in every task configuration.
C6_RetryThenReturn ==
  \A i \in InvIds :
    LET k == IF kind[TaskOf(i)] = "retry1" THEN 1 ELSE 2 IN
    (kind[TaskOf(i)] \in {"retry1", "retry2"} /\ FirstRunOver(i)) =>
      /\ inv[i].pc = "done"
      /\ inv[i].attempts = k + 1
      /\ Entry(Fp(i)).pkl.st = "full"

\* C6's failing case: a sticky work directory, an upstream output with an
\* artifact staged by copy, one RetryTask: the second _setup_workdir raises
\* FileExistsError.
C6_Witness ==
  \E i \in InvIds :
    /\ TaskOf(i) = "A"
    /\ kind["A"] = "retry1" /\ sticky["A"] /\ kind["U"] = "upFile"
    /\ input0["A"] = <<TaskRef("U", 1)>>
    /\ inv[i].pc = "failed" /\ inv[i].err = "FileExistsError"
    /\ inv[i].attempts = 1
    /\ Entry(Fp(i)).pkl.st = "absent"

\* C7: an invocation whose body raises RetryTask on every attempt executes it
\* exactly 3 times and fails with the retries-exhausted error; the output
\* stays unset and the fingerprint has no output.pkl.
C7_RetriesExhausted ==
  \A i \in InvIds :
    (kind[TaskOf(i)] = "retryAlways" /\ FirstRunOver(i)) =>
      /\ inv[i].pc = "failed"
      /\ inv[i].err = "RetriesExhausted"
      /\ inv[i].attempts = MaxRetries
      /\ output[TaskOf(i)] = NoneV
      /\ Entry(Fp(i)).pkl.st = "absent"

\* C7's failing case: as for C6, with a body that always raises RetryTask:
\* one execution, then FileExistsError.
C7_Witness ==
  \E i \in InvIds :
    /\ TaskOf(i) = "A"
    /\ kind["A"] = "retryAlways" /\ sticky["A"] /\ kind["U"] = "upFile"
    /\ input0["A"] = <<TaskRef("U", 1)>>
    /\ inv[i].pc = "failed" /\ inv[i].err = "FileExistsError"
    /\ inv[i].attempts = 1

\* C8: when the body raises an error other than RetryTask, the invocation
\* does not attempt the body again and fails with that error, a downstream
\* invocation awaiting it fails with it too, and the fingerprint has no
\* output.pkl.
C8_OtherErrorPropagates ==
  \A i \in InvIds :
    (BodyOutcome(kind[TaskOf(i)], 1) = "raise" /\ inv[i].attempts >= 1) =>
      /\ inv[i].attempts = 1
      /\ inv[i].pc \in {"ran", "failed"}
      /\ inv[i].pc = "failed" => inv[i].err = "BodyError"
      /\ Entry(Fp(i)).pkl.st = "absent"
      /\ (inv[i].parent # 0 /\ inv[i].pc = "failed" /\ Ended(inv[i].parent)) =>
           /\ inv[inv[i].parent].pc = "failed"
           /\ inv[inv[i].parent].err = "BodyError"
           /\ inv[inv[i].parent].attempts = 0

\* C8's case: an upstream body raised on its one attempt and the downstream
\* invocation failed with the error.
C8_Witness ==
  \E i \in InvIds :
    /\ inv[i].raisedAt = 1
    /\ inv[i].pc = "failed" /\ inv[i].err = "BodyError"
    /\ inv[i].parent # 0
    /\ inv[inv[i].parent].pc = "failed" /\ inv[inv[i].parent].err = "BodyError"

\* C9: when the body returns a value that is no string-keyed mapping, or a
\* mapping with a node that cannot be serialized, the invocation fails and
\* the fingerprint has no output.pkl afterwards (a later lookup is a miss).
C9_InvalidOutputNoEntry ==
  \A i \in InvIds :
    (inv[i].badOut /\ Ended(i)) =>
      /\ inv[i].pc = "failed"
      /\ ~_check_cache(Fp(i))

\* C9's failing case: the body returned a mapping with a lambda, the store
\* failed leaving an empty output.pkl, and a later lookup of the fingerprint
\* was a hit whose load raised EOFError.
C9_Witness ==
  \E i, j \in InvIds :
    /\ kind[TaskOf(i)] = "lambda"
    /\ inv[i].badOut /\ inv[i].pc = "failed" /\ inv[i].err = "StoreError"
    /\ Entry(Fp(i)).pkl.st = "empty"
    /\ Fp(j) = Fp(i)
    /\ inv[j].seen.st = "empty" /\ inv[j].pc = "failed" /\ inv[j].err = "EOFError"

\* The user holds the lock having found no artifact under it.
Producing(u) == rpc[u] \in {"producing", "publishing"}

\* C10: at most one user of a reusable artifact is in the producing state at
\* a time, in every interleaving.
C10_SingleProducer == Cardinality({u \in Users : Producing(u)}) <= 1

\* C10's failing case: a producer released the lock without publishing; a
\* user that waited on the lock file it unlinked and a user that created a
\* new lock file are both producing.
C10_Witness ==
  \E a, b, c \in Users :
    /\ rerr[a] = "FileNotFoundError" /\ rpc[a] = "done"
    /\ b # c /\ Producing(b) /\ Producing(c)
    /\ rfd[b] # rfd[c]
    /\ flock[rfd[b]] = b /\ flock[rfd[c]] = c
    /\ cacheFile = "absent"

\* The user copied its file to the cache (shutil.copy in __exit__, lock held).
Wrote(u) ==
  /\ rrole[u] = "producer"
  /\ rpc[u] \in {"publishing", "unlock", "close", "remove", "done"}
  /\ rerr[u] # "FileNotFoundError"

\* C11: when every user of a non-mutable reusable artifact has left its block
\* and every producer wrote the file, exactly one user wrote the cache file
\* and every user completed its block without an error, the others having
\* linked or copied the complete file.
C11_OneWriterAllObserve ==
  ( /\ ~rmutable
    /\ \A u \in Users : rpc[u] = "done"
    /\ \A u \in Users : rrole[u] = "producer" => localFile[u] = "own" ) =>
      /\ Cardinality({u \in Users : Wrote(u)}) = 1
      /\ \A u \in Users : rerr[u] = "" /\ (Wrote(u) \/ rsaw[u] = "present")

\* C11's failing case: one user wrote the cache file, every other user linked
\* the complete file, and a user's block ended with the FileNotFoundError of
\* os.remove in FileLock.release.
C11_Witness ==
  /\ ~rmutable
  /\ \A u \in Users : rpc[u] = "done"
  /\ Cardinality({u \in Users : Wrote(u)}) = 1
  /\ \A u \in Users : Wrote(u) \/ rsaw[u] = "present"
  /\ \E u \in Users : rerr[u] = "RemoveFileNotFoundError"

\* C12: no user links or copies the cache file while its publication is in
\* progress.
C12_ReadersSeeCommitted == \A u \in Users : rsaw[u] # "partial"

\* C12's failing case: a user on the lock-free fast path copied the cache
\* file while the producer's shutil.copy was writing it.
C12_Witness ==
  \E u, w \in Users :
    /\ rpc[w] = "publishing" /\ cacheFile = "partial"
    /\ rsaw[u] = "partial" /\ rfd[u] = 0 /\ rpc[u] = "block"
    /\ localFile[u] = "copy"

\* C13: once an invocation of an instance has returned an output (not None),
\* no step changes the instance's stored output or runs its body, and every
\* invocation of the instance that has returned, then or later, returned
\* that same object.
C13_Step ==
  \A t \in Tasks :
    (\E i \in DoneOf(t) : inv[i].res # NoneV) =>
      /\ output'[t] = output[t]
      /\ bodyRuns'[t] = bodyRuns[t]
      /\ \A j \in DOMAIN inv' :
           (inv'[j].task = t /\ inv'[j].pc = "done") => inv'[j].res = output[t]

C13_OutputSetOnce == [][C13_Step]_vars

\* C13's case: user code invoked an instance again after an invocation of it
\* had returned; the later invocation returned the stored object and ran
\* nothing.
C13_Witness ==
  \E i, j \in InvIds :
    /\ i < j /\ TaskOf(i) = TaskOf(j)
    /\ inv[i].parent = 0 /\ inv[j].parent = 0
    /\ ~inv[j].busy
    /\ inv[i].pc = "done" /\ inv[i].attempts = 1
    /\ inv[j].pc = "done" /\ inv[j].attempts = 0 /\ ~inv[j].looked
    /\ inv[i].res # NoneV /\ inv[j].res = inv[i].res
    /\ output[TaskOf(i)] = inv[i].res
    /\ bodyRuns[TaskOf(i)] = 1

\* The two input mappings hold the same key/value pairs.
EqualAsMappings(a, b) ==
  {<<a[i].key, a[i].node>> : i \in DOMAIN a} =
  {<<b[i].key, b[i].node>> : i \in DOMAIN b}

\* C14: two instances of one class whose inputs are equal as mappings,
\* whatever the order their keys were inserted in, have equal fingerprints.
C14_OrderInsensitive ==
  (pin.op = "hash" /\ pout # <<>> /\ EqualAsMappings(pin.a, pin.b)) =>
    pout[1] = pout[2]

\* C14's case: the same two items inserted in opposite orders, and the
\* fingerprints computed differ.
C14_Witness ==
  /\ pin.op = "hash" /\ pout # <<>>
  /\ Len(pin.a) = 2 /\ pin.b = <<pin.a[2], pin.a[1]>>
  /\ EqualAsMappings(pin.a, pin.b)
  /\ pout[1] # pout[2]

\* The destination as written: the dest argument, or the path without one.
DestArg == IF pin.b # <<>> THEN pin.b[1] ELSE pin.a.path

\* The components of the destination from left to right, the root first.
DestComponents == (IF DestArg.abs THEN <<"/">> ELSE <<>>) \o DestArg.comps

\* The running depth after the first n components: ".." counts -1, "."
\* counts 0, every other component +1.
DepthAfter(n) ==
  Cardinality({i \in 1..n : DestComponents[i] \notin {".", ".."}})
  - Cardinality({i \in 1..n : DestComponents[i] = ".."})

\* C15: constructing an artifact fails with the escape error exactly when the
\* running depth of its destination is negative after some prefix of its
\* components; for every other destination the construction succeeds.
C15_EscapeIffNegativePrefix ==
  (pin.op = "entry" /\ pout # <<>>) =>
    /\ pout[1].err \in {"", "ValueError"}
    /\ pout[1].err = "ValueError" <=>
         \E n \in 1..Len(DestComponents) : DepthAfter(n) < 0

\* C15's case: a destination whose depth is negative after a prefix and not
\* at its end, refused.
C15_Witness ==
  /\ pin.op = "entry" /\ pout # <<>>
  /\ pout[1].err = "ValueError"
  /\ DepthAfter(Len(DestComponents)) >= 0
  /\ \E c \in DOMAIN DestComponents : DestComponents[c] = "."

\* The location the artifact is staged at and archived from.
StagedAt == Normalize(Join(WorkDir, pout[1].dest_path))

\* C16: for every artifact constructed without error, whatever its path and
\* dest arguments, work_dir/dest lies inside the work directory.
C16_DestInsideWorkDir ==
  (pin.op = "entry" /\ pout # <<>> /\ pout[1].err = "") =>
    /\ Len(StagedAt) >= Len(WorkDir)
    /\ SubSeq(StagedAt, 1, Len(WorkDir)) = WorkDir

\* C16's case: an artifact constructed with an absolute dest, whose
\* work_dir/dest is a location outside the work directory.
C16_Witness ==
  /\ pin.op = "entry" /\ pout # <<>> /\ pout[1].err = ""
  /\ pin.b # <<>> /\ pin.b[1].abs /\ ~pin.a.path.abs
  /\ StagedAt = <<"/", "a">>

\* The run of test_deps: U's body writes and returns a file artifact staged
\* by copy, A's input holds two handles of U's output, A's body returns.
DepsRun ==
  /\ kind["U"] = "upFile"
  /\ kind["A"] = "scalar"
  /\ input0["A"] = <<Handle("U", 1, 1), Handle("U", 1, 2)>>

\* C17: a downstream task whose input holds several handles of the file
\* artifacts of one upstream instance completes: every invocation of it by
\* user code that is over has returned (after the upstream ran and its files
\* were staged), none has raised.
C17_DownstreamCompletes ==
  \A i \in InvIds :
    (DepsRun /\ TaskOf(i) = "A" /\ inv[i].parent = 0 /\ Ended(i)) =>
      inv[i].pc = "done"

\* C17's case: the upstream ran and returned its file, the handles were
\* restored, and the downstream invocation raised before its body ran; the
\* staging of what it collected would raise as well.
C17_Witness ==
  \E i \in InvIds :
    /\ DepsRun /\ TaskOf(i) = "A" /\ inv[i].parent = 0
    /\ bodyRuns["U"] = 1 /\ DoneOf("U") # {}
    /\ \A n \in DOMAIN input["A"] : input["A"][n].type = "file"
    /\ inv[i].pc = "failed" /\ inv[i].err = "HashError"
    /\ bodyRuns["A"] = 0
    /\ ~Stage({}, StagedEntries(input["A"], upres["A"].vals)).ok

C20_PresenceAtomic == peek.loaded \in {"", "full"}

\* C20's case: the other process hit and loaded an empty output.pkl of a
\* store that went on to write the output and return.
C20_Witness ==
  /\ peek.loaded = "empty"
  /\ \E i \in InvIds :
       /\ Storable(kind[TaskOf(i)])
       /\ inv[i].pc = "done" /\ inv[i].wrote
       /\ Entry(Fp(i)).pkl.st = "full"

\* C19: after a store, every artifact of the output reloaded from output.pkl
\* has a source path that names a blob of the cache entry, and the blob
\* holds the bytes the body wrote at work_dir/dest for that artifact.
C19_ArtifactRoundTrip ==
  (pin.op = "store" /\ pout # <<>> /\ pout[1].err = "") =>
    \A k \in 1..Len(pin.b) :
      /\ pout[1].blobs[pout[1].src[k]].type = pin.b[k].type
      /\ pout[1].blobs[pout[1].src[k]].c = pin.a[pin.b[k].dest]

\* C19's case: a store that succeeded on an output of a directory and a file
\* constructed without dest, after which the file artifact's source path
\* names the directory's blob.
C19_Witness ==
  /\ pin.op = "store" /\ pout # <<>> /\ pout[1].err = ""
  /\ Len(pin.b) = 2
  /\ pin.b[1].type = "dir" /\ pin.b[1].dest = pin.b[1].path
  /\ pin.b[2].type = "file" /\ pin.b[2].dest = pin.b[2].path
  /\ pout[1].src[2] = pout[1].src[1]
  /\ pout[1].blobs[pout[1].src[2]].type = "dir"

\* C21: a step that executes the body of a task, whatever the body does to
\* the value it is given, leaves the task's input and its memoized
\* fingerprint as they were.
C21_Step ==
  \A t \in Tasks :
    bodyRuns'[t] # bodyRuns[t] => input'[t] = input[t] /\ hash'[t] = hash[t]

C21_BodyLeavesInput == [][C21_Step]_vars

\* C21's case: a body that writes to the mapping it is given has run and
\* returned, and the task holds the input it was constructed with and the
\* fingerprint of that input.
C21_Witness ==
  \E i \in InvIds :
    /\ MutatesArgument(kind[TaskOf(i)])
    /\ inv[i].pc = "done" /\ inv[i].attempts >= 1
    /\ input[TaskOf(i)] = input0[TaskOf(i)]
    /\ hash[TaskOf(i)] = _calculate_hash(input0[TaskOf(i)], kind[TaskOf(i)], hash)

\* Task t is on a cycle: its input, followed through the inputs of the
\* tasks it names, names t.
OnCycle(t) == t \in Upstream(t)

\* Invocation i waits for a coroutine of its own making that waits for the
\* output lock i holds: neither can take another step.
WaitsForItself(i) ==
  /\ inv[i].pc = "await"
  /\ \E k \in DOMAIN inv[i].kids :
       /\ inv[inv[i].kids[k]].pc = "start"
       /\ outLock[TaskOf(inv[i].kids[k])] = i

\* C22: an invocation of a task whose input transitively contains the task
\* is rejected: no body on the cycle is executed, the invocation does not
\* end up waiting for itself, and when it is over it has raised the
\* invalid-input error.
C22_CycleRejected ==
  \A i \in InvIds :
    (OnCycle(TaskOf(i)) /\ inv[i].parent = 0) =>
      /\ bodyRuns[TaskOf(i)] = 0
      /\ ~WaitsForItself(i)
      /\ Ended(i) => (inv[i].pc = "failed" /\ inv[i].err = "InvalidInput")

\* C22's case: user code invoked a task that is its own input; the
\* invocation holds the output lock and awaits a second coroutine of the
\* task, which waits for that lock. No body has run and nothing was raised.
C22_Witness ==
  \E i \in InvIds :
    /\ OnCycle(TaskOf(i)) /\ inv[i].parent = 0
    /\ WaitsForItself(i)
    /\ running = 0
    /\ bodyRuns[TaskOf(i)] = 0
    /\ \A j \in InvIds : TaskOf(j) = TaskOf(i) => ~Ended(j)

\* The invocations of task t that raised.
FailedOf(t) == {i \in InvIds : TaskOf(i) = t /\ inv[i].pc = "failed"}

\* C23: Failed is terminal: once an invocation of an instance has raised, no
\* step executes the body of that instance again.
C23_Step ==
  \A t \in Tasks : FailedOf(t) # {} => bodyRuns'[t] = bodyRuns[t]

C23_FailedIsTerminal == [][C23_Step]_vars

\* C23's case: an invocation of an instance ran the body and raised; user
\* code invoked the instance again afterwards, and that invocation ran the
\* body once more.
C23_Witness ==
  \E i, j \in InvIds :
    /\ i < j /\ TaskOf(i) = TaskOf(j)
    /\ inv[i].parent = 0 /\ inv[j].parent = 0
    /\ ~inv[j].busy
    /\ inv[i].pc = "failed" /\ inv[i].attempts >= 1
    /\ inv[j].attempts >= 1
    /\ bodyRuns[TaskOf(i)] = inv[i].attempts + inv[j].attempts

\* Invocation i found output.pkl at its lookup and has not returned yet.
HitPending(i) == inv[i].looked /\ inv[i].seen.st # "absent" /\ ~Ended(i)

\* C24: the step an invocation takes after a hit returns the output loaded
\* from output.pkl and changes neither a work directory (nothing is staged),
\* nor the count of body executions, nor any file of a cache entry.
C24_Step ==
  \A i \in InvIds :
    (HitPending(i) /\ inv'[i] # inv[i]) =>
      /\ inv'[i].pc = "done"
      /\ inv'[i].res.nodes = inv[i].seen.val.nodes
      /\ inv'[i].attempts = 0
      /\ wd' = wd /\ bodyRuns' = bodyRuns /\ fs' = fs

C24_HitOnlyLoads == [][C24_Step]_vars

\* C24's case: a lookup that hit an output.pkl left empty by a failed store;
\* the invocation raised from the load, having staged, run and written
\* nothing.
C24_Witness ==
  \E i \in InvIds :
    /\ inv[i].looked /\ inv[i].seen.st = "empty"
    /\ inv[i].pc = "failed" /\ inv[i].err = "EOFError"
    /\ inv[i].attempts = 0 /\ ~inv[i].wrote
    /\ wd[TaskOf(i)].files = {}
    /\ Entry(Fp(i)).pkl.st = "empty"

\* C25: a step that counts a retry of a task with a transient work directory
\* destroys the directory; the directory made next is a new, empty one; a
\* body that runs after a retry runs in a directory holding exactly the
\* staged artifacts of the input; and no step replaces a sticky work
\* directory or removes a file from it.
C25_Step ==
  /\ \A i \in InvIds :
       LET t == TaskOf(i) IN
       /\ (inv'[i].retry > inv[i].retry /\ ~sticky[t]) =>
            wd'[t].dir = "None" /\ wd'[t].files = {}
       /\ (inv[i].retry >= 1 /\ inv'[i].attempts > inv[i].attempts /\ ~sticky[t]) =>
            /\ wd[t].dir = "Temp"
            /\ wd[t].files = Stage({}, StagedEntries(input[t], upres[t].vals)).files
  /\ \A t \in Tasks :
       /\ (wd[t].dir = "None" /\ wd'[t].dir # "None") =>
            wd'[t].dir = "Temp" /\ wd'[t].gen = wd[t].gen + 1
       /\ sticky[t] =>
            /\ wd'[t].dir = "Path" /\ wd'[t].gen = wd[t].gen
            /\ wd[t].files \subseteq wd'[t].files

C25_FreshDirPerAttempt == [][C25_Step]_vars

\* C25's case: a body that raised RetryTask once in a transient work
\* directory holding a staged upstream file, and returned on its second
\* attempt in the second directory, where the file was staged again.
C25_Witness ==
  \E i \in InvIds :
    /\ ~sticky[TaskOf(i)]
    /\ inv[i].pc = "done" /\ inv[i].attempts = 2 /\ inv[i].retry = 1
    /\ wd[TaskOf(i)].dir = "Temp" /\ wd[TaskOf(i)].gen = 2
    /\ "res" \in wd[TaskOf(i)].files

\* C26: when the upstream tasks have finished and their outputs have been
\* restored into the input, no position of the input holds a placeholder.
C26_NoPlaceholderLeft ==
  (pin.op = "restore" /\ pout # <<>>) =>
    \A n \in DOMAIN pout[1] : pout[1][n].type # "handle"

\* C26's case: one placeholder object at two positions of the input, for a
\* key whose value is 1; the first position holds the value and the second
\* still holds the placeholder.
C26_Witness ==
  /\ pin.op = "restore" /\ pout # <<>>
  /\ Len(pin.a) = 2 /\ pin.a[1] = pin.a[2] /\ pin.a[1].type = "handle"
  /\ pin.b[1].nodes[pin.a[1].key].v # 0
  /\ pout[1][1] = pin.b[1].nodes[pin.a[1].key]
  /\ pout[1][2] = pin.a[2]

\* C27: canonicalization succeeds on every input whose leaves are scalars,
\* artifacts and evaluated tasks, also when one artifact or task object
\* stands at several positions.
C27_CanonicalizationSucceeds ==
  ( /\ pin.op = "dump" /\ pout # <<>>
    /\ \A n \in DOMAIN pin.a : pin.a[n].type \in {"scalar", "file", "task"} ) =>
      pout[1].err = ""

\* C27's case: an input that holds one evaluated task under two keys and no
\* artifact, on which _dump_input raises.
C27_Witness ==
  /\ pin.op = "dump" /\ pout # <<>>
  /\ Len(pin.a) = 2 /\ pin.a[1] = pin.a[2] /\ pin.a[1].type = "task"
  /\ pout[1].err # ""

\* C28: the fingerprint of a task whose input holds a reusable artifact is
\* computed: canonicalization of such an input succeeds.
C28_ReusableFingerprinted ==
  ( /\ pin.op = "dump" /\ pout # <<>>
    /\ \E n \in DOMAIN pin.a : pin.a[n].type = "reusable" ) =>
      pout[1].err = ""

\* C28's case: the input of SomeBusyTask, a reusable artifact and a scalar,
\* on which _dump_input raises.
C28_Witness ==
  /\ pin.op = "dump" /\ pout # <<>>
  /\ Len(pin.a) = 2 /\ pin.a[1].type = "reusable" /\ pin.a[2] = Scalar(1)
  /\ pout[1].err # ""

\* User u holds a lock: flock has granted it one on some lock file.
HoldsLock(u) == \E n \in DOMAIN flock : flock[n] = u

\* C29: a producer that leaves its block with a file releases the lock only
\* after the copy into the cache is complete, the step that deletes the lock
\* file is taken by a user that holds no lock any more, and no step grants a
\* user the lock while a producer's copy is under way.
C29_Step ==
  /\ \A u \in Users :
       /\ (rrole[u] = "producer" /\ rerr'[u] = "" /\ rpc[u] # "unlock" /\ rpc'[u] = "unlock") =>
            /\ rpc[u] = "publishing" /\ localFile[u] = "own"
            /\ HoldsLock(u) /\ HoldsLock(u)'
            /\ cacheFile' = "present"
       /\ (rpc[u] = "publishing" \/ rpc'[u] = "publishing") => HoldsLock(u)
       /\ (HoldsLock(u) /\ ~HoldsLock(u)') => rpc[u] = "unlock"
       /\ (rpc[u] = "remove" /\ rpc'[u] # "remove") => ~HoldsLock(u)
  /\ (\E u \in Users : rpc[u] = "publishing") =>
       \A v \in Users : HoldsLock(v)' => HoldsLock(v)

C29_CopyUnderLock == [][C29_Step]_vars

\* C29's case: while a producer's copy into the cache is under way, a user
\* that found no artifact holds the lock of a second lock file made under
\* the same path.
C29_Witness ==
  \E u, v \in Users :
    /\ u # v
    /\ rpc[u] = "publishing" /\ HoldsLock(u) /\ cacheFile = "partial"
    /\ rpc[v] = "recheck" /\ HoldsLock(v)
    /\ rfd[u] # rfd[v]

\* C30: when a user of a mutable reusable artifact that entered at the first
\* existence test leaves its block, the exit raises nothing and the cache
\* file is the complete copy of its local file, with copy=True and with
\* copy=False alike.
C30_Step ==
  \A u \in Users :
    (rmutable /\ rfast[u] /\ rpc[u] = "block" /\ rpc'[u] = "done") =>
      /\ rerr'[u] = ""
      /\ cacheFile' = "present"

C30_MutableCopiedBack == [][C30_Step]_vars

\* C30's case: a user of a mutable artifact entered at the first existence
\* test with copy=False, so its local file is a hard link of the cache file,
\* and its block has exited.
C30_Witness ==
  \E u \in Users :
    /\ rmutable /\ ~rcopy /\ rfast[u]
    /\ localFile[u] = "link"
    /\ rpc[u] = "done"
    /\ rerr[u] = "SameFileError"

\* ------------------------------------------------- runs that must end
\* The coroutines one invocation of task t creates, directly and through the
\* coroutines of its upstream tasks, when no task is on a cycle.
RECURSIVE Demand(_)
Demand(t) ==
  LET deps == DependentTasks(input0[t])
      RECURSIVE Sum(_)
      Sum(k) == IF k = 0 THEN 0 ELSE 1 + Demand(deps[k]) + Sum(k - 1)
  IN  Sum(Len(deps))

\* The coroutines the invocations under way may still create.
RECURSIVE Outstanding(_)
Outstanding(n) ==
  IF n = 0 THEN 0
  ELSE (IF inv[n].pc \in {"start", "collect"} THEN Demand(TaskOf(n)) ELSE 0)
       + Outstanding(n - 1)

\* User code starts a coroutine of t when the run has room for it and for
\* every coroutine it and the invocations under way may create.
CallInRoom(t) ==
  /\ Len(inv) + Outstanding(Len(inv)) + 1 + Demand(t) <= MaxInv
  /\ Call(t)

\* A step of the event loop or of the worker: some coroutine of the runtime
\* goes on.
LoopStep ==
  \/ \E i \in InvIds : Enter(i)
  \/ \E i \in InvIds : Collect(i)
  \/ \E i \in InvIds : Await(i)
  \/ \E i \in InvIds : GetHash(i)
  \/ \E i \in InvIds : HashDone(i)
  \/ \E i \in InvIds : AcquireGlobalLock(i)
  \/ \E i \in InvIds : WakeGlobalLock(i)
  \/ \E i \in InvIds : CheckCache(i)
  \/ \E i \in InvIds : LoadFromCache(i)
  \/ \E i \in InvIds : SetupWorkdir(i)
  \/ \E i \in InvIds : RunTask(i)
  \/ \E i \in InvIds : AfterRun(i)
  \/ \E i \in InvIds : ValidateOutput(i)
  \/ \E i \in InvIds : CacheOutputStep(i)
  \/ \E i \in InvIds : Finish(i)

\* The task graphs without a cycle.
InitLive ==
  /\ Init
  /\ \A t \in Tasks : ~OnCycle(t)

NextLive ==
  \/ \E t \in Tasks : CallInRoom(t)
  \/ LoopStep

\* asyncio runs every ready coroutine, and the bodies and the worker's jobs
\* terminate: while some coroutine can go on, one does.
SpecLive == InitLive /\ [][NextLive]_vars /\ WF_vars(LoopStep)

\* C31: when no task is on a cycle, every invocation that was started
\* eventually returns or raises, whatever the interleaving of the
\* invocations on the output locks and the fingerprint locks.
C31_EveryInvocationEnds ==
  \A i \in 1..MaxInv : (i \in InvIds) ~> (i \in InvIds /\ Ended(i))

\* C31's case: an invocation that was started while another invocation held
\* the output lock of its instance is over, and so is one that had to wait
\* for the lock of its fingerprint.
C31_Witness ==
  /\ \A i \in InvIds : Ended(i)
  /\ \E i \in InvIds : inv[i].busy
  /\ \E i \in InvIds : inv[i].waited

\* Invocation i holds a lock: the output lock of its instance or the lock of
\* a fingerprint.
HoldsALock(i) ==
  \/ outLock[TaskOf(i)] = i
  \/ \E f \in DOMAIN glock : glock[f] = i

\* C32: an invocation that is over, however it ended, holds neither the
\* output lock of its instance nor the lock of any fingerprint.
C32_EndedHoldsNoLock == \A i \in InvIds : Ended(i) => ~HoldsALock(i)

\* C32's case: an invocation ended with an error after it had taken both
\* locks, and a later invocation of the same instance now holds both.
C32_Witness ==
  \E i, j \in InvIds :
    /\ i < j /\ TaskOf(i) = TaskOf(j)
    /\ inv[i].pc = "failed" /\ inv[i].looked
    /\ outLock[TaskOf(j)] = j
    /\ Fp(j) \in DOMAIN glock /\ glock[Fp(j)] = j

\* The coroutines of invocation i's gather that raised.
FailedKids(i) ==
  {inv[i].kids[k] : k \in {n \in DOMAIN inv[i].kids : inv[inv[i].kids[n]].pc = "failed"}}

\* Some task upstream of t has failed: an invocation of it raised.
UpstreamFailed(t) == \E u \in Upstream(t) : FailedOf(u) # {}

\* C33: once a task upstream of T has failed, no step executes T's body,
\* gives an invocation of T the lock of a fingerprint or writes an
\* output.pkl for T, and an invocation of T whose gather met a failed
\* upstream coroutine ends by raising the error of one of them.
C33_Step ==
  /\ \A t \in Tasks :
       (~OnCycle(t) /\ UpstreamFailed(t)) =>
         /\ bodyRuns'[t] = bodyRuns[t]
         /\ \A i \in InvIds :
              TaskOf(i) = t =>
                /\ inv'[i].wrote => inv[i].wrote
                /\ \A f \in DOMAIN glock' :
                     glock'[f] = i => (f \in DOMAIN glock /\ glock[f] = i)
  /\ \A i \in InvIds :
       (FailedKids(i) # {} /\ ~Ended(i) /\ inv'[i] # inv[i]) =>
         /\ inv'[i].pc = "failed"
         /\ \E j \in FailedKids(i) : inv'[i].err = inv[j].err

C33_UpstreamFailureStops == [][C33_Step]_vars

\* C33's case: A's invocation raised after its body returned, B's input is
\* A, and an invocation of B started afterwards has taken the lock of its
\* fingerprint and run B's body.
C33_Witness ==
  \E i, j \in InvIds :
    /\ TaskOf(i) = "A" /\ inv[i].pc = "failed" /\ inv[i].parent = 0
    /\ TaskOf(j) = "B" /\ i < j /\ "A" \in Upstream("B")
    /\ ~OnCycle("B")
    /\ inv[j].looked /\ inv[j].attempts >= 1
    /\ bodyRuns["B"] >= 1

\* C34: no release of the lock raises: whatever the interleaving of the
\* users on the lock file, no user ends with the error of os.remove, and a
\* user that is over and raised nothing has been through its block.
C34_ReleaseNeverFails ==
  \A u \in Users :
    /\ rerr[u] # "RemoveFileNotFoundError"
    /\ (rpc[u] = "done" /\ rerr[u] = "") => rrole[u] \in {"producer", "reader"}

\* C34's case: two users opened the same lock file; the producer published
\* and released, the other took the lock, found the artifact, and its
\* release raised in __enter__, so its block was never entered.
C34_Witness ==
  \E u, v \in Users :
    /\ u # v
    /\ rrole[v] = "producer" /\ rpc[v] = "done" /\ rerr[v] = ""
    /\ rrole[u] = "reader" /\ ~rfast[u] /\ rpc[u] = "done"
    /\ rerr[u] = "RemoveFileNotFoundError"
    /\ cacheFile = "present" /\ lockPath = 0

\* User u is a producer whose block left no file.
LeftNoFile(u) == rrole[u] = "producer" /\ localFile[u] = "none"

\* C35: the exit of a producer whose block left no file raises the
\* not-found error and goes on to the release, which frees the lock; that
\* user never changes the cache file; and the user granted the lock first
\* after that release becomes the producer.
C35_Step ==
  /\ \A u \in Users :
       /\ (LeftNoFile(u) /\ rpc[u] = "producing" /\ rpc'[u] # "producing") =>
            /\ rerr'[u] = "FileNotFoundError"
            /\ rpc'[u] = "unlock"
            /\ cacheFile' = cacheFile
       /\ (LeftNoFile(u) /\ rpc[u] = "unlock" /\ rpc'[u] # "unlock") =>
            /\ HoldsLock(u) /\ ~HoldsLock(u)'
            /\ cacheFile' = cacheFile
       /\ (LeftNoFile(u) /\ rpc[u] \in {"close", "remove"} /\ rpc'[u] # rpc[u]) =>
            /\ ~HoldsLock(u)'
            /\ cacheFile' = cacheFile
  /\ \A v \in Users :
       (rnext.user = v /\ rpc[v] = "recheck" /\ rpc'[v] # "recheck") =>
         /\ rrole'[v] = "producer"
         /\ rpc'[v] = "producing"

C35_FailedProducerLeavesNothing == [][C35_Step]_vars

\* C35's case: user u's block left no file and u has released; v was
\* granted the lock first after that, while the artifact was absent; a
\* third user took the lock of a new lock file and started to publish before
\* v looked again, so v linked what it found and is no producer.
C35_Witness ==
  \E u, v, w \in Users :
    /\ u # v /\ v # w /\ u # w
    /\ LeftNoFile(u) /\ rerr[u] = "FileNotFoundError" /\ ~HoldsLock(u)
    /\ rnext.user = v /\ rrole[v] = "reader"
    /\ rrole[w] = "producer" /\ localFile[w] = "own"

\* C36: for a non-mutable artifact, no step changes the cache file once it
\* is present.
C36_Step == (~rmutable /\ cacheFile = "present") => cacheFile' = "present"

C36_PresentIsFinal == [][C36_Step]_vars

\* C36's case: one producer of a non-mutable artifact has published the
\* file and released, and a second producer's copy is writing over it.
C36_Witness ==
  \E u, v \in Users :
    /\ u # v /\ ~rmutable
    /\ rrole[u] = "producer" /\ localFile[u] = "own" /\ rerr[u] = ""
    /\ rpc[u] \in {"unlock", "close", "remove", "done"}
    /\ rpc[v] = "publishing" /\ cacheFile = "partial"

\* ------------------------------------------- two processes that store
\* An equal task in another process sharing cache_dir looks the entry up
\* and misses; its body, run there, returns the output the store accepts.
\* The locks of __call__ are asyncio locks of that process.
ForeignMiss(t) ==
  /\ other = NoStore
  /\ hash[t] # <<>>
  /\ ~_check_cache(hash[t])
  /\ BodyOutcome(kind[t], 1) = "return"
  /\ _is_valid_output(BodyValue(kind[t], 0))
  /\ Picklable(BodyValue(kind[t], 0))
  /\ other' = [pc |-> "store", task |-> t, step |-> 1]
  /\ UNCHANGED <<taskVars, reuseVars, peek, gargs, gst, gret, pureVars>>

\* The next step of its _cache_output, on the same entry.
ForeignStoreStep ==
  LET t == other.task
      s == CacheOutputSteps[other.step]
  IN
  /\ other.pc = "store"
  /\ fs' = SetEntry(hash[t], StepEntry(s, Entry(hash[t]), BodyValue(kind[t], 0)))
  /\ other' = IF other.step = Len(CacheOutputSteps)
                THEN [other EXCEPT !.pc = "done"]
                ELSE [other EXCEPT !.step = @ + 1]
  /\ UNCHANGED <<cfgVars, input, output, hash, upres, wd, outLock, glock, inv,
                 running, bodyRuns, nextOid, reuseVars, peek, gargs, gst, gret,
                 pureVars>>

NextStore ==
  \/ NextShared
  \/ \E t \in Roots : ForeignMiss(t)
  \/ ForeignStoreStep

SpecStore == InitShared /\ [][NextStore]_vars

\* C37: no step of a task run, in this process or in another one sharing
\* the cache directory, takes away the output.pkl of a fingerprint: a
\* lookup that hits keeps hitting.
C37_Step ==
  \A fp \in DOMAIN fs : _check_cache(fp) => Entry(fp).pkl.st' # "absent"

C37_LookupMonotonic == [][C37_Step]_vars

\* C37's case: an invocation in this process stored its output and
\* returned; the equal task in the other process, which had missed before,
\* has just removed that output.pkl and not yet opened its own.
C37_Witness ==
  \E i \in InvIds :
    /\ inv[i].pc = "done" /\ inv[i].wrote
    /\ other.pc = "store" /\ other.task = TaskOf(i)
    /\ CacheOutputSteps[other.step] \in {"makedirs", "archive", "json", "open"}
    /\ Fp(i) \in DOMAIN fs /\ ~_check_cache(Fp(i))

\* The producer's block ended with an exception of the caller's code.
BlockFailed(u) == rrole[u] = "producer" /\ rerr[u] = "BlockError"

\* C38: the exit of a producer whose block raised leaves the cache file as
\* it is and goes on to the release: that producer never writes to the
\* cache.
C38_Step ==
  \A u \in Users :
    (BlockFailed(u) /\ rpc[u] = "producing" /\ rpc'[u] # "producing") =>
      /\ cacheFile' = cacheFile
      /\ rpc'[u] = "unlock"

C38_FailedBlockPublishesNothing == [][C38_Step]_vars

\* C38's case: the only producer's block raised after it had written its
\* file; the file was copied to the cache, and a later user has linked or
\* copied it.
C38_Witness ==
  \E u, v \in Users :
    /\ u # v
    /\ BlockFailed(u) /\ localFile[u] = "own" /\ rpc[u] = "done"
    /\ \A w \in Users \ {u} : rrole[w] # "producer"
    /\ cacheFile = "present"
    /\ rrole[v] = "reader" /\ rsaw[v] = "present" /\ localFile[v] \in {"link", "copy"}

====
